---- MODULE Spec2Model ----
(***************************************************************************)
(* Ingestion-and-aggregation pipeline of the air-quality dashboard:        *)
(*   - the WAQI fetch client with retry, backoff and rate-limit handling   *)
(*     (workers/ingestion/src/index.ts, fetchWaqiData),                    *)
(*   - the batch scheduler (fetchStationsBatched),                         *)
(*   - the shard selector (ingestAllCities, sharding logic),               *)
(*   - the ingestion run and the D1 store it writes, the national          *)
(*     aggregator that reads the city-day rows, and the OpenAQ backfill    *)
(*     that adds city-day rows (Spec: the invocations one after the other; *)
(*     RerunSpec: the pipeline run twice within one hour).                 *)
(* Each part has its own specification over the shared variables; the      *)
(* variables of the other parts stay at their idle value.                  *)
(***************************************************************************)
EXTENDS Integers, Sequences, FiniteSets, TLC

(***************************************************************************)
(* Program constants                                                       *)
(***************************************************************************)
\* RETRY_CONFIG (workers/ingestion/src/index.ts:197-202)
maxRetries == 3
baseDelayMs == 1000
maxDelayMs == 10000
backoffMultiplier == 2
\* WAQI_CONFIG of the multi-station worker configuration
maxConcurrent == 5
delayBetweenBatchesMs == 100
\* parseInt(response.headers.get('Retry-After') || '60', 10)
defaultRetryAfterS == 60
\* Date.getHours() ranges over 0 .. 23
HoursPerDay == 24

(***************************************************************************)
(* Bounds of the model                                                     *)
(***************************************************************************)
\* longest configured city list the shard selector is tried on
MaxCities == 4
\* largest number of seconds a numeric Retry-After header names, in minutes
MaxRetryAfterMin == 2
\* most stations of the city whose stations are fetched in batches
MaxStations == 6
MaxDay == 1
MaxHour == 1
MaxSub == 1
MaxRuns == 2
MaxAggs == 2
MaxBackfills == 1
MaxInvocations == 4
MaxReadings == 4
MaxConfigured == 10
MaxHalfPm25 == 30
MaxReporting == 3
MaxDate == 2
MaxBeyond == 4
MaxDateFaults == 2
MaxPopulation == 2
\* last hour of the date with a snapshot of the city
MaxSnapshotHour == 2
\* most days of sensors a backfill beside the ingestion goes through
MaxSensorDays == 2

(***************************************************************************)
(* Helpers                                                                 *)
(***************************************************************************)
Min(a, b) == IF a <= b THEN a ELSE b
Max(a, b) == IF a >= b THEN a ELSE b

RECURSIVE Pow(_, _)
\* Math.pow(b, e) for natural e
Pow(b, e) == IF e = 0 THEN 1 ELSE b * Pow(b, e - 1)

\* the elements of a sequence
Range(s) == {s[i] : i \in 1..Len(s)}

\* Math.ceil(a / b) for naturals a, b > 0
CeilDiv(a, b) == (a + b - 1) \div b

VARIABLES
  fetch,      \* fetchWaqiData: the position and locals of one station fetch
  events,     \* fetchWaqiData: the requests issued and sleeps performed, in order
  cityList,   \* shard selector: the configured CITIES
  shard,      \* shard selector: the last trigger and the cities it selected
  batch,      \* fetchStationsBatched: the station count, the loop index i, the position
  flights,    \* fetchStationsBatched: the fetchWaqiData call of each station
  results,    \* fetchStationsBatched: the stations in the results map
  clock,      \* pipeline: the current instant, new Date()
  upstream,   \* pipeline: how the endpoint of each station behaves
  faults,     \* pipeline: the storage operations that fail
  db,         \* pipeline: the D1 database, its tables
  runs,       \* ingestAllCities: the position and locals of the run of each source
  agg,        \* computeNationalAggregateForDate: its position and locals
  backfill,   \* runBackfill: its position and the day summary in hand
  started,    \* pipeline: the number of invocations started, of each kind
  stats,      \* computeCitySnapshot: its readings argument, position and snapshot
  call        \* a function called on its own: its name, arguments and result

fetchVars == <<fetch, events>>
shardVars == <<cityList, shard>>
batchVars == <<batch, flights, results>>
pipeVars == <<clock, upstream, faults, db, runs, agg, backfill, started>>
statsVars == <<stats>>
callVars == <<call>>
vars == <<fetch, events, cityList, shard, batch, flights, results,
          clock, upstream, faults, db, runs, agg, backfill, started, stats, call>>

\* the variables each part leaves alone
notFetch == <<shardVars, batchVars, pipeVars, statsVars, callVars>>
notShard == <<fetchVars, batchVars, pipeVars, statsVars, callVars>>
notBatch == <<fetchVars, shardVars, pipeVars, statsVars, callVars>>
notPipe == <<fetchVars, shardVars, batchVars, statsVars, callVars>>
notStats == <<fetchVars, shardVars, batchVars, pipeVars, callVars>>
notCall == <<fetchVars, shardVars, batchVars, pipeVars, statsVars>>

\* no function called on its own
NoCall == [fn |-> "none", pc |-> "idle"]

(***************************************************************************)
(* Fetch client: fetchWaqiData                                             *)
(***************************************************************************)
\* Math.random() in [0, 1), in thousandths
Randoms == {0, 500, 999}

\* What one HTTP request can end in.
\*   ok        2xx with a JSON object body
\*   nonobject 2xx whose JSON body is not an object (null, a number, ...)
\*   badjson   2xx whose body is not JSON: response.json() throws
\*   s429      HTTP 429
\*   s4xx      any other status that is not ok and below 500
\*   s5xx      HTTP status >= 500
\*   neterr    fetch() throws
Outcomes == {"ok", "nonobject", "badjson", "s429", "s4xx", "s5xx", "neterr"}

\* The Retry-After header of a 429: absent, a number of seconds, or text
\* that does not start with a digit (an HTTP date)
RetryAfterHeaders ==
  {[kind |-> "absent", v |-> 0], [kind |-> "text", v |-> 0]}
    \cup {[kind |-> "digits", v |-> s] :
            s \in {0, 1} \cup {60 * m : m \in 1..MaxRetryAfterMin}}

NoHeader == [kind |-> "absent", v |-> 0]

\* parseInt(header || '60', 10): a number, or NaN for text
RetryAfterSeconds(h) ==
  CASE h.kind = "absent" -> [nan |-> FALSE, v |-> defaultRetryAfterS]
    [] h.kind = "digits" -> [nan |-> FALSE, v |-> h.v]
    [] OTHER             -> [nan |-> TRUE, v |-> 0]

\* sleep(retryAfter * 1000): setTimeout takes a NaN delay as 0
RateLimitSleepMs(h) ==
  LET s == RetryAfterSeconds(h) IN IF s.nan THEN 0 ELSE s.v * 1000

\* getBackoffDelay(attempt), r = Math.random() in thousandths
getBackoffDelay(attempt, r) ==
  LET exponentialDelay == baseDelayMs * Pow(backoffMultiplier, attempt)
      jitter == (r * 3 * exponentialDelay) \div 10000
  IN  Min(exponentialDelay + jitter, maxDelayMs)

\* a loop bound that is off by one
LoopContinues_offByOne(attempt) == attempt <= maxRetries + 1

\* for (let attempt = 0; attempt <= RETRY_CONFIG.maxRetries; attempt++)
LoopContinues(attempt) == attempt <= maxRetries

\* what throws inside the loop body: fetch() and response.json()
Throws(o) == o \in {"neterr", "badjson"}

\* a fetch whose request sits outside the try block
CaughtByTry_none(o) == FALSE

\* try { ... } catch: the try block encloses fetch() and response.json()
CaughtByTry(o) == o \in {"neterr", "badjson"}

\* client errors taken for retryable
RetriesNext_with4xx(o) == o \in {"s5xx", "nonobject", "s4xx"}

\* the responses after which the loop goes on to the next attempt without a
\* rate-limit wait: status >= 500, a body that is no object
RetriesNext(o) == o \in {"s5xx", "nonobject"}

FetchStart ==
  [pc |-> "loop", attempt |-> 0, result |-> "none", header |-> NoHeader]

\* the loop head: leave the loop, or enter the body
AfterLoopHead(f) ==
  IF LoopContinues(f.attempt)
  THEN [f EXCEPT !.pc = IF f.attempt > 0 THEN "backoff" ELSE "request"]
  ELSE [f EXCEPT !.pc = "done", !.result = "null"]

\* if (attempt > 0) await sleep(getBackoffDelay(attempt - 1))
AfterBackoff(f) == [f EXCEPT !.pc = "request"]

\* await fetch(url) and the branches on the response
AfterResponse(f, o, h) ==
  CASE Throws(o)      -> IF CaughtByTry(o)
                         THEN [f EXCEPT !.pc = "loop", !.attempt = f.attempt + 1]
                         ELSE [f EXCEPT !.pc = "done", !.result = "threw"]
    [] o = "s429"     -> [f EXCEPT !.pc = "ratelimited", !.header = h]
    [] RetriesNext(o) -> [f EXCEPT !.pc = "loop", !.attempt = f.attempt + 1]
    [] o = "s4xx"     -> [f EXCEPT !.pc = "done", !.result = "null"]
    [] OTHER          -> [f EXCEPT !.pc = "done", !.result = "data"]

\* await sleep(retryAfter * 1000); continue
AfterRateLimit(f) ==
  [f EXCEPT !.pc = "loop", !.attempt = f.attempt + 1, !.header = NoHeader]

\* entries of the event log: a request with its outcome (and the Retry-After
\* header of a 429), or a sleep with its reason and duration
Request(o, h) == [ev |-> "request", what |-> o, ms |-> 0, header |-> h]
Sleep(why, ms) == [ev |-> "sleep", what |-> why, ms |-> ms, header |-> NoHeader]


FetchLoopHead ==
  /\ fetch.pc = "loop"
  /\ fetch' = AfterLoopHead(fetch)
  /\ UNCHANGED <<events, notFetch>>

FetchBackoff ==
  /\ fetch.pc = "backoff"
  /\ \E r \in Randoms :
       events' = Append(events, Sleep("backoff", getBackoffDelay(fetch.attempt - 1, r)))
  /\ fetch' = AfterBackoff(fetch)
  /\ UNCHANGED notFetch

FetchRequest ==
  /\ fetch.pc = "request"
  /\ \E o \in Outcomes :
       \E h \in IF o = "s429" THEN RetryAfterHeaders ELSE {NoHeader} :
         /\ fetch' = AfterResponse(fetch, o, h)
         /\ events' = Append(events, Request(o, h))
  /\ UNCHANGED notFetch

FetchRateLimited ==
  /\ fetch.pc = "ratelimited"
  /\ events' = Append(events, Sleep("ratelimit", RateLimitSleepMs(fetch.header)))
  /\ fetch' = AfterRateLimit(fetch)
  /\ UNCHANGED notFetch

FetchNext == FetchLoopHead \/ FetchBackoff \/ FetchRequest \/ FetchRateLimited

(***************************************************************************)
(* Batch scheduler: fetchStationsBatched                                   *)
(* A step runs one call from one await to the next, as the event loop      *)
(* does: a station fetch is suspended in fetch(), in a backoff sleep or in *)
(* a rate-limit sleep, and the scheduler in Promise.all or in the delay    *)
(* between two batches.                                                    *)
(***************************************************************************)
NotStarted == [pc |-> "notstarted", attempt |-> 0, result |-> "none", header |-> NoHeader]
Settled == [pc |-> "settled", attempt |-> 0, result |-> "none", header |-> NoHeader]

\* the synchronous code between two awaits of fetchWaqiData: from the loop
\* head on to the next sleep or request, or to the return
ToNextAwait(f) == IF f.pc = "loop" THEN AfterLoopHead(f) ELSE f

\* stations.slice(i, i + WAQI_CONFIG.maxConcurrent), as station numbers 1..n
Window(i, n) == (i + 1)..Min(i + maxConcurrent, n)

\* a barrier that opens when the first promise settles
AllSettled_any(fl, w) == \E s \in w : fl[s].pc = "settled"

\* await Promise.all(promises): every promise of the batch has settled
AllSettled(fl, w) == \A s \in w : fl[s].pc = "settled"

\* a sleep after every window, the last included
DelayFollows_afterLast(i, n) == i < n

\* if (i + WAQI_CONFIG.maxConcurrent < stations.length)
DelayFollows(i, n) == i + maxConcurrent < n

BatchStart(n) == [n |-> n, i |-> 0, pc |-> "loop", delays |-> 0]

\* for (let i = 0; i < stations.length; ...): start the fetches of the next
\* batch (each runs up to its first await), or return the results
BatchLoop ==
  /\ batch.pc = "loop"
  /\ IF batch.i < batch.n
     THEN /\ flights' = [s \in DOMAIN flights |->
                           IF s \in Window(batch.i, batch.n)
                           THEN ToNextAwait(FetchStart) ELSE flights[s]]
          /\ batch' = [batch EXCEPT !.pc = "await"]
     ELSE /\ batch' = [batch EXCEPT !.pc = "returned"]
          /\ UNCHANGED flights
  /\ UNCHANGED <<results, notBatch>>

\* the fetch of station s resumes from its await and runs to the next one;
\* when fetchWaqiData returns, the callback stores the data, if any
Resume(s, g) ==
  LET f == ToNextAwait(g) IN
  IF f.pc = "done"
  THEN /\ flights' = [flights EXCEPT ![s] = Settled]
       /\ results' = IF f.result = "data" THEN results \cup {s} ELSE results
  ELSE /\ flights' = [flights EXCEPT ![s] = f]
       /\ UNCHANGED results

FlightResponse ==
  /\ \E s \in DOMAIN flights :
       /\ flights[s].pc = "request"
       /\ \E o \in Outcomes : Resume(s, AfterResponse(flights[s], o, NoHeader))
  /\ UNCHANGED <<batch, notBatch>>

FlightBackoffOver ==
  /\ \E s \in DOMAIN flights :
       /\ flights[s].pc = "backoff"
       /\ Resume(s, AfterBackoff(flights[s]))
  /\ UNCHANGED <<batch, notBatch>>

FlightRateLimitOver ==
  /\ \E s \in DOMAIN flights :
       /\ flights[s].pc = "ratelimited"
       /\ Resume(s, AfterRateLimit(flights[s]))
  /\ UNCHANGED <<batch, notBatch>>

\* Promise.all resolves: sleep between batches, or go on with the loop
BatchAwait ==
  /\ batch.pc = "await"
  /\ AllSettled(flights, Window(batch.i, batch.n))
  /\ batch' = IF DelayFollows(batch.i, batch.n)
              THEN [batch EXCEPT !.pc = "delay"]
              ELSE [batch EXCEPT !.pc = "loop", !.i = batch.i + maxConcurrent]
  /\ UNCHANGED <<flights, results, notBatch>>

\* await sleep(WAQI_CONFIG.delayBetweenBatchesMs) is over
BatchDelayOver ==
  /\ batch.pc = "delay"
  /\ batch' = [batch EXCEPT !.pc = "loop", !.i = batch.i + maxConcurrent,
                            !.delays = batch.delays + 1]
  /\ UNCHANGED <<flights, results, notBatch>>

BatchNext ==
  \/ BatchLoop
  \/ FlightResponse
  \/ FlightBackoffOver
  \/ FlightRateLimitOver
  \/ BatchAwait
  \/ BatchDelayOver

(***************************************************************************)
(* Shard selector: ingestAllCities, sharding logic                         *)
(***************************************************************************)
Sources == {"scheduled", "manual"}

\* a slice that includes its end index
Slice_inclusive(s, from, to) == SubSeq(s, from + 1, Min(to + 1, Len(s)))

\* CITIES.slice(from, to), 0-based, to exclusive
Slice(s, from, to) == SubSeq(s, from + 1, Min(to, Len(s)))

\* Math.floor in place of Math.ceil
Half_floor(cities) == Len(cities) \div 2

\* const half = Math.ceil(CITIES.length / 2)
Half(cities) == CeilDiv(Len(cities), 2)

\* currentHour % 2 === 0
IsEvenHour(h) == h % 2 = 0

\* citiesToProcess
CitiesToProcess(cities, source, currentHour) ==
  IF source = "manual"
  THEN cities
  ELSE IF IsEvenHour(currentHour)
       THEN Slice(cities, 0, Half(cities))
       ELSE Slice(cities, Half(cities), Len(cities))

\* no trigger has fired yet in hour h
ShardStart(h) ==
  [source |-> "none", hour |-> h, selected |-> <<>>,
   prev |-> [valid |-> FALSE, selected |-> <<>>],
   first |-> [x \in {} |-> <<>>]]

\* the hourly cron fires at the next hour; first keeps what the first
\* scheduled run of each hour of the day selected
ScheduledTrigger ==
  LET h == (shard.hour + 1) % HoursPerDay
      sel == CitiesToProcess(cityList, "scheduled", h)
  IN
  /\ shard' = [source |-> "scheduled", hour |-> h, selected |-> sel,
               prev |-> [valid |-> shard.source = "scheduled",
                         selected |-> shard.selected],
               first |-> IF h \in DOMAIN shard.first
                         THEN shard.first ELSE shard.first @@ (h :> sel)]
  /\ UNCHANGED <<cityList, notShard>>

\* GET /trigger with the secret, within the current hour
ManualTrigger ==
  /\ shard.source # "manual"
  /\ shard' = [shard EXCEPT !.source = "manual",
                            !.selected = CitiesToProcess(cityList, "manual", shard.hour),
                            !.prev = [valid |-> FALSE, selected |-> <<>>]]
  /\ UNCHANGED <<cityList, notShard>>

ShardNext == ScheduledTrigger \/ ManualTrigger

(***************************************************************************)
(* Numbers of the store and of the aggregations: a rational n/d in lowest  *)
(* terms, SQL NULL, or one of the infinities Math.min() and Math.max()     *)
(* give on an empty list.                                                  *)
(***************************************************************************)
Abs(x) == IF x < 0 THEN 0 - x ELSE x

RECURSIVE Gcd(_, _)
Gcd(a, b) == IF b = 0 THEN a ELSE Gcd(b, a % b)

\* the rational n/d, d # 0, in lowest terms with a positive denominator
Num(n, d) ==
  LET g == Gcd(Abs(n), Abs(d))
      sgn == IF d < 0 THEN 0 - 1 ELSE 1
  IN  [t |-> "num", n |-> sgn * (n \div g), d |-> sgn * (d \div g)]

Whole(n) == [t |-> "num", n |-> n, d |-> 1]
Null == [t |-> "null", n |-> 0, d |-> 1]
PosInf == [t |-> "inf", n |-> 1, d |-> 1]
NegInf == [t |-> "inf", n |-> 0 - 1, d |-> 1]

IsNum(x) == x.t = "num"
IsNull(x) == x.t = "null"

RAdd(x, y) == Num(x.n * y.d + y.n * x.d, x.d * y.d)
RSub(x, y) == Num(x.n * y.d - y.n * x.d, x.d * y.d)
RMul(x, y) == Num(x.n * y.n, x.d * y.d)
\* x / y for y # 0
RDiv(x, y) == Num(x.n * y.d, x.d * y.n)
\* x < y, the infinities included
RLess(x, y) ==
  CASE x.t = "inf" /\ y.t = "inf" -> x.n < y.n
    [] x.t = "inf" -> x.n < 0
    [] y.t = "inf" -> y.n > 0
    [] OTHER -> x.n * y.d < y.n * x.d
RLeq(x, y) == x = y \/ RLess(x, y)

\* Boolean(x) of a number or null: null and 0 are falsy
Truthy(x) == IsNum(x) /\ x.n # 0

RECURSIVE SumSeq(_)
\* arr.reduce((a, b) => a + b, 0)
SumSeq(xs) == IF xs = <<>> THEN Whole(0) ELSE RAdd(xs[1], SumSeq(Tail(xs)))

\* function average(arr): null for an empty array
average(xs) == IF xs = <<>> THEN Null ELSE RDiv(SumSeq(xs), Whole(Len(xs)))

RECURSIVE MathMin(_)
\* Math.min(...xs): Infinity for no argument
MathMin(xs) ==
  IF xs = <<>> THEN PosInf
  ELSE LET m == MathMin(Tail(xs)) IN IF RLess(xs[1], m) THEN xs[1] ELSE m

RECURSIVE MathMax(_)
\* Math.max(...xs): -Infinity for no argument
MathMax(xs) ==
  IF xs = <<>> THEN NegInf
  ELSE LET m == MathMax(Tail(xs)) IN IF RLess(m, xs[1]) THEN xs[1] ELSE m

RECURSIVE Insert(_, _)
\* x put into the ascending list xs, after the elements equal to it
Insert(x, xs) ==
  IF xs = <<>> THEN <<x>>
  ELSE IF RLess(x, xs[1]) THEN <<x>> \o xs
       ELSE <<xs[1]>> \o Insert(x, Tail(xs))

RECURSIVE SortAsc(_)
\* xs.sort((a, b) => a - b)
SortAsc(xs) == IF xs = <<>> THEN <<>> ELSE Insert(xs[Len(xs)], SortAsc(SubSeq(xs, 1, Len(xs) - 1)))

(***************************************************************************)
(* Configuration of the ingestion run, and the upstream it fetches from    *)
(***************************************************************************)
\* export const CITIES: two cities stand for the ten, the first with two
\* stations and the second with one; populations in millions
CITIES ==
  << [slug |-> "delhi", population |-> 3, stations |-> <<1, 2>>],
     [slug |-> "agra", population |-> 1, stations |-> <<3>>] >>

\* METRICS and the literals of the health formulas
WHO_GUIDELINE == 5
CIGARETTE_PM25_EQUIVALENT == 22
\* AQLI_YEARS_PER_10UG = 0.98
AQLI_YEARS_PER_10UG == Num(98, 100)

StationIds == UNION {{c.stations[i] : i \in 1..Len(c.stations)} : c \in {CITIES[j] : j \in 1..Len(CITIES)}}

\* How a station's endpoint behaves during a behaviour of the model:
\*   live    answers 200 with status ok, data and data.time.iso
\*   notime  answers 200 with status ok and data that has no time
\*   down    answers every request with a 5xx or not at all
Behaviours == {"live", "notime", "down"}

\* Further ways an endpoint behaves, for the runs under failure:
\*   error      answers 200 with { status: 'error', data: <message> }
\*   nodata     answers 200 with status ok and no data
\*   nopm25     answers 200 with status ok and data whose iaqi has no pm25
\*   malformed  answers 200 with a body that is not JSON
\*   gone       answers 404
FailingBehaviours == {"error", "nodata", "nopm25", "malformed", "gone"}

\* AQI bounds (US EPA scale); ERROR_CODE is the index value the upstream
\* sends for an error
AQI_BOUNDS == [MIN |-> 0, MAX |-> 500, ERROR_CODE |-> 999]

\* An endpoint may also answer 200 with status ok and data whose aqi is the
\* error code:
\*   sentinel   answers as live, but data.aqi is 999
SentinelBehaviours == {"sentinel"}

\* An endpoint may answer without the coordinates of the station:
\*   nogeo      answers as live, but data.city has no geo
UnlocatedBehaviours == {"nogeo"}

\* the endpoints of a behaviour: all live, or all live but one
Scenarios ==
  {up \in [StationIds -> Behaviours] :
     Cardinality({s \in StationIds : up[s] # "live"}) <= 1}

\* what the k-th request of one fetch ends in
RespondsWith(b, k) ==
  CASE b = "down" -> IF k % 2 = 1 THEN "s5xx" ELSE "neterr"
    [] b = "malformed" -> "badjson"
    [] b = "gone" -> "s4xx"
    [] OTHER -> "ok"

\* instants: day, hour of the day, and the instant within the hour
At(day, hour, sub) == [day |-> day, hour |-> hour, sub |-> sub]

\* truncateToHour(isoString)
truncateToHour(t) == At(t.day, t.hour, 0)

\* hourTimestamp.split('T')[0], date(recorded_at)
DateOf(t) == t.day

\* new Date(s.recorded_at).getHours(), new Date().getHours()
getHours(t) == t.hour

\* the PM2.5 sub-index station s reports in the hour of t
Pm25Of(s, t) == 10 * s + 4 * t.hour

\* the body a station answers with at instant t: the reading of the hour
Payload(b, s, t) ==
  [status |-> IF b = "error" THEN "error" ELSE "ok",
   hasData |-> b # "nodata",
   iso |-> IF b # "notime" THEN [present |-> TRUE, at |-> truncateToHour(t)]
                           ELSE [present |-> FALSE, at |-> At(0, 0, 0)],
   pm25 |-> IF b = "nopm25" THEN Null ELSE Whole(Pm25Of(s, t)),
   aqi |-> IF b = "sentinel" THEN Whole(AQI_BOUNDS.ERROR_CODE) ELSE Whole(Pm25Of(s, t)),
   geo |-> b \notin UnlocatedBehaviours]

RECURSIVE RunFetch(_, _, _)
\* fetchWaqiData against an endpoint of behaviour b, k requests issued so far:
\* the call run from await to await up to its return
RunFetch(f, b, k) ==
  LET g == ToNextAwait(f) IN
  CASE g.pc = "done" -> [result |-> g.result, requests |-> k]
    [] g.pc = "request" ->
         RunFetch(AfterResponse(g, RespondsWith(b, k + 1), NoHeader), b, k + 1)
    [] g.pc = "backoff" -> RunFetch(AfterBackoff(g), b, k)
    [] OTHER -> RunFetch(AfterRateLimit(g), b, k)

\* the fetch of station s, from its first attempt to its return
FetchOf(up, s) == RunFetch(FetchStart, up[s], 0)

\* await Promise.all(promises) rejects when a fetch throws
BatchThrows(stations, up) ==
  \E i \in 1..Len(stations) : FetchOf(up, stations[i]).result = "threw"

\* fetchStationsBatched(city.stations, token): the results map, station id
\* to body, of the stations whose fetch returned data
fetchStationsBatched(stations, up, t) ==
  LET got == {s \in {stations[i] : i \in 1..Len(stations)} :
                FetchOf(up, s).result = "data"}
  IN  [s \in got |-> Payload(up[s], s, t)]

(***************************************************************************)
(* The D1 store: each table is the list of its rows in rowid order         *)
(***************************************************************************)
\* the rows of a table that satisfy no UNIQUE constraint check at all
Conflicts_none(table, row, cols) == {}

\* the positions of the rows that collide with row on the UNIQUE columns cols
Conflicts(table, row, cols) ==
  {i \in 1..Len(table) : \A c \in cols : table[i][c] = row[c]}

RECURSIVE Without(_, _)
\* the table without the rows at the positions in gone
Without(table, gone) ==
  IF table = <<>> THEN <<>>
  ELSE LET n == Len(table)
           rest == Without(SubSeq(table, 1, n - 1), gone)
       IN  IF n \in gone THEN rest ELSE Append(rest, table[n])

\* INSERT OR REPLACE: the colliding rows are deleted, the row is added
InsertOrReplace(table, row, cols) ==
  Append(Without(table, Conflicts(table, row, cols)), row)

\* an INSERT that replaces the colliding rows
InsertOrIgnore_replace(table, row, cols) == InsertOrReplace(table, row, cols)

\* INSERT OR IGNORE: the row is added unless a row collides
InsertOrIgnore(table, row, cols) ==
  IF Conflicts(table, row, cols) = {} THEN Append(table, row) ELSE table

\* the UNIQUE columns of the tables (migrations/0001_initial_schema.sql)
CitiesKey == {"slug"}
StationsKey == {"waqi_id"}
ReadingsKey == {"station_id", "recorded_at"}
SnapshotsKey == {"city_id", "recorded_at"}
DailyKey == {"city_id", "date"}
NationalKey == {"date"}

\* INSERT OR IGNORE INTO cities of the migration: the seeded row of Delhi,
\* whose population differs from the configured one
SeededCities == << [id |-> 1, slug |-> "delhi", population |-> 4] >>

EmptyDb ==
  [cities |-> SeededCities,
   stations |-> <<>>,
   readings |-> <<>>,
   city_snapshots |-> <<>>,
   daily_aggregates |-> <<>>,
   national_daily_aggregates |-> <<>>,
   ingestion_logs |-> <<>>]

\* db.prepare('SELECT ... WHERE col = ?').first(): the first matching row
\* position, 0 when there is none
FirstWhere(table, col, v) ==
  LET hit == {i \in 1..Len(table) : table[i][col] = v}
  IN  IF hit = {} THEN 0 ELSE CHOOSE i \in hit : \A j \in hit : i <= j

(***************************************************************************)
(* The aggregations                                                        *)
(***************************************************************************)
\* a is an earlier instant than b
Before(a, b) ==
  \/ a.day < b.day
  \/ a.day = b.day /\ a.hour < b.hour
  \/ a.day = b.day /\ a.hour = b.hour /\ a.sub < b.sub

\* avgPm25 / METRICS.CIGARETTE_PM25_EQUIVALENT
cigarettesEquivalent(avg) ==
  IF IsNull(avg) THEN Whole(0) ELSE RDiv(avg, Whole(CIGARETTE_PM25_EQUIVALENT))

\* years lost without the Math.max(0, ...)
yearsLostPerYear_unclamped(avg) ==
  IF IsNull(avg) THEN Whole(0)
  ELSE RMul(RDiv(RSub(avg, Whole(WHO_GUIDELINE)), Whole(10)), AQLI_YEARS_PER_10UG)

\* Math.max(0, (avgPm25 - METRICS.WHO_GUIDELINE) / 10) * METRICS.AQLI_YEARS_PER_10UG
yearsLostPerYear(avg) ==
  IF IsNull(avg) THEN Whole(0)
  ELSE LET over == RDiv(RSub(avg, Whole(WHO_GUIDELINE)), Whole(10))
       IN  RMul(IF RLess(over, Whole(0)) THEN Whole(0) ELSE over, AQLI_YEARS_PER_10UG)

\* avgPm25 / METRICS.WHO_GUIDELINE
whoViolation(avg) ==
  IF IsNull(avg) THEN Whole(0) ELSE RDiv(avg, Whole(WHO_GUIDELINE))

\* updateDailyAggregate: the three health metrics of the day's average, 0
\* each when the average is null
dailyMetrics(avgPm25) ==
  [cigarettes_equivalent |-> cigarettesEquivalent(avgPm25),
   years_lost_per_year |-> yearsLostPerYear(avgPm25),
   who_violation_factor |-> whoViolation(avgPm25)]

\* computeNationalAggregateForDate: the three health metrics, of the weighted
\* average, with the aggregator's own METRICS
nationalMetrics(weightedAvgPm25) ==
  [cigarettes_equivalent |-> RDiv(weightedAvgPm25, Whole(CIGARETTE_PM25_EQUIVALENT)),
   years_lost_per_year |-> yearsLostPerYear(weightedAvgPm25),
   who_violation_factor |-> RDiv(weightedAvgPm25, Whole(WHO_GUIDELINE))]

\* runBackfill: day.summary.avg / 22, Math.max(0, (day.summary.avg - 5) / 10)
\* * 0.98, day.summary.avg / 5
backfillMetrics(avg) ==
  [cigarettes_equivalent |-> RDiv(avg, Whole(22)),
   years_lost_per_year |->
     LET over == RDiv(RSub(avg, Whole(5)), Whole(10))
     IN  RMul(IF RLess(over, Whole(0)) THEN Whole(0) ELSE over, Num(98, 100)),
   who_violation_factor |-> RDiv(avg, Whole(5))]

\* insertReading: the row bound to INSERT OR REPLACE INTO readings; the
\* recorded instant is data.time?.iso || timestamp
ReadingRow(stationId, data, timestamp) ==
  [station_id |-> stationId,
   recorded_at |-> IF data.iso.present THEN data.iso.at ELSE timestamp,
   pm25 |-> data.pm25,
   aqi |-> data.aqi]

\* a filter that keeps every reading
validReadings_all(readings) == readings

\* a filter that drops the readings of PM2.5 0 with those without PM2.5
validReadings_truthy(readings) == SelectSeq(readings, LAMBDA r : Truthy(r.pm25))

\* readings.filter((r) => r.pm25 !== null && r.pm25 !== undefined)
validReadings(readings) == SelectSeq(readings, LAMBDA r : ~IsNull(r.pm25))

\* a median that takes the upper middle value whatever the count
medianPm25_upper(xs) == xs[Len(xs) \div 2 + 1]

\* the median of the ascending list xs
medianPm25(xs) ==
  IF Len(xs) % 2 = 0
  THEN RDiv(RAdd(xs[Len(xs) \div 2], xs[Len(xs) \div 2 + 1]), Whole(2))
  ELSE xs[Len(xs) \div 2 + 1]

\* validReadings.length >= totalStationCount * 0.5 ? 'healthy' : 'degraded'
qualityStatus(valid, total) == IF 2 * valid >= total THEN "healthy" ELSE "degraded"

\* computeCitySnapshot: the row bound to INSERT OR REPLACE INTO city_snapshots,
\* for a non-empty list of valid readings
SnapshotRow(cityId, readings, hourTimestamp, totalStationCount) ==
  LET valid == validReadings(readings)
      pm25Values == SortAsc([i \in 1..Len(valid) |-> valid[i].pm25])
  IN  [city_id |-> cityId,
       recorded_at |-> hourTimestamp,
       avg_pm25 |-> RDiv(SumSeq(pm25Values), Whole(Len(pm25Values))),
       min_pm25 |-> pm25Values[1],
       max_pm25 |-> pm25Values[Len(pm25Values)],
       median_pm25 |-> medianPm25(pm25Values),
       total_stations |-> totalStationCount,
       valid_stations |-> Len(valid),
       quality_status |-> qualityStatus(Len(valid), totalStationCount)]

RECURSIVE OrderByRecordedAt(_, _)
\* the rows of the table at the positions idx, ORDER BY recorded_at
OrderByRecordedAt(table, idx) ==
  IF idx = {} THEN <<>>
  ELSE LET i == CHOOSE k \in idx : \A j \in idx :
                   \/ Before(table[k].recorded_at, table[j].recorded_at)
                   \/ table[k].recorded_at = table[j].recorded_at /\ k <= j
       IN  <<table[i]>> \o OrderByRecordedAt(table, idx \ {i})

\* SELECT ... FROM city_snapshots WHERE city_id = ? AND date(recorded_at) = ?
\* ORDER BY recorded_at
SnapshotsOfDay(table, cityId, date) ==
  OrderByRecordedAt(table, {i \in 1..Len(table) :
                              /\ table[i].city_id = cityId
                              /\ DateOf(table[i].recorded_at) = date})

RECURSIVE Peak(_)
\* the forEach over the snapshots in order, from peakHour = 0 and peakPm25 = 0
Peak(snaps) ==
  IF snaps = <<>> THEN [hour |-> 0, pm25 |-> Whole(0)]
  ELSE LET p == Peak(SubSeq(snaps, 1, Len(snaps) - 1))
           s == snaps[Len(snaps)]
       IN  IF IsNum(s.avg_pm25) /\ RLess(p.pm25, s.avg_pm25)
           THEN [hour |-> getHours(s.recorded_at), pm25 |-> s.avg_pm25]
           ELSE p

\* updateDailyAggregate: the row bound to INSERT OR REPLACE INTO
\* daily_aggregates, for the snapshots of the day
DailyRow(cityId, date, snaps) ==
  LET avgPm25 == average(SelectSeq([i \in 1..Len(snaps) |-> snaps[i].avg_pm25], Truthy))
      peak == Peak(snaps)
  IN  [city_id |-> cityId,
       date |-> date,
       avg_pm25 |-> avgPm25,
       min_pm25 |-> MathMin(SelectSeq([i \in 1..Len(snaps) |-> snaps[i].min_pm25], Truthy)),
       max_pm25 |-> MathMax(SelectSeq([i \in 1..Len(snaps) |-> snaps[i].max_pm25], Truthy)),
       peak_hour |-> Whole(peak.hour),
       peak_pm25 |-> peak.pm25,
       cigarettes_equivalent |-> dailyMetrics(avgPm25).cigarettes_equivalent,
       years_lost_per_year |-> dailyMetrics(avgPm25).years_lost_per_year,
       who_violation_factor |-> dailyMetrics(avgPm25).who_violation_factor,
       hours_with_data |-> Len(snaps)]

\* runBackfill: the row bound to INSERT OR IGNORE INTO daily_aggregates for
\* one day of one OpenAQ sensor; peak_hour and peak_pm25 are not bound
BackfillRow(cityId, date, day) ==
  [city_id |-> cityId,
   date |-> date,
   avg_pm25 |-> day.avg,
   min_pm25 |-> day.min,
   max_pm25 |-> day.max,
   peak_hour |-> Null,
   peak_pm25 |-> Null,
   cigarettes_equivalent |-> backfillMetrics(day.avg).cigarettes_equivalent,
   years_lost_per_year |-> backfillMetrics(day.avg).years_lost_per_year,
   who_violation_factor |-> backfillMetrics(day.avg).who_violation_factor,
   hours_with_data |-> day.observedCount]

\* a SELECT that leaves out WHERE da.date = ?
CityData_anyDate(daily, cities, date) ==
  LET kept == SelectSeq(daily, LAMBDA da :
                ~IsNull(da.avg_pm25) /\ FirstWhere(cities, "id", da.city_id) # 0)
  IN  [k \in 1..Len(kept) |->
         [city_id |-> kept[k].city_id, avg_pm25 |-> kept[k].avg_pm25,
          min_pm25 |-> kept[k].min_pm25, max_pm25 |-> kept[k].max_pm25,
          population |-> cities[FirstWhere(cities, "id", kept[k].city_id)].population]]

RECURSIVE CityData(_, _, _)
\* SELECT ... FROM daily_aggregates da JOIN cities c ON da.city_id = c.id
\* WHERE da.date = ? AND da.avg_pm25 IS NOT NULL
CityData(daily, cities, date) ==
  IF daily = <<>> THEN <<>>
  ELSE LET n == Len(daily)
           da == daily[n]
           rest == CityData(SubSeq(daily, 1, n - 1), cities, date)
           c == FirstWhere(cities, "id", da.city_id)
       IN  IF da.date = date /\ ~IsNull(da.avg_pm25) /\ c # 0
           THEN Append(rest, [city_id |-> da.city_id, avg_pm25 |-> da.avg_pm25,
                              min_pm25 |-> da.min_pm25, max_pm25 |-> da.max_pm25,
                              population |-> cities[c].population])
           ELSE rest

RECURSIVE InsertByPm25_before(_, _)
\* c put into the list ascending in avg_pm25, before the elements equal to it
InsertByPm25_before(c, cs) ==
  IF cs = <<>> THEN <<c>>
  ELSE IF RLeq(c.avg_pm25, cs[1].avg_pm25) THEN <<c>> \o cs
       ELSE <<cs[1]>> \o InsertByPm25_before(c, Tail(cs))

RECURSIVE InsertByPm25(_, _)
\* c put into the list ascending in avg_pm25, after the elements equal to it
InsertByPm25(c, cs) ==
  IF cs = <<>> THEN <<c>>
  ELSE IF RLess(c.avg_pm25, cs[1].avg_pm25) THEN <<c>> \o cs
       ELSE <<cs[1]>> \o InsertByPm25(c, Tail(cs))

RECURSIVE sortedByPm25(_)
\* [...cities].sort((a, b) => a.avg_pm25 - b.avg_pm25)
sortedByPm25(cs) ==
  IF cs = <<>> THEN <<>>
  ELSE InsertByPm25(cs[Len(cs)], sortedByPm25(SubSeq(cs, 1, Len(cs) - 1)))

\* Number(x) of a column value: null counts as 0 in Math.min and Math.max
Number(x) == IF IsNull(x) THEN Whole(0) ELSE x

\* a weighted average that ignores the populations
weightedAverage_simple(cities, avgPm25) == avgPm25

\* totalPopulation > 0 ? sum(avg_pm25 * population) / totalPopulation : avgPm25
weightedAverage(cities, avgPm25) ==
  LET totalPopulation == SumSeq([i \in 1..Len(cities) |-> Whole(cities[i].population)])
  IN  IF RLess(Whole(0), totalPopulation)
      THEN RDiv(SumSeq([i \in 1..Len(cities) |->
                          RMul(cities[i].avg_pm25, Whole(cities[i].population))]),
                totalPopulation)
      ELSE avgPm25

\* computeNationalAggregateForDate: the row bound to INSERT OR REPLACE INTO
\* national_daily_aggregates, for a non-empty list of cities
NationalRow(date, cities) ==
  LET avgPm25 == RDiv(SumSeq([i \in 1..Len(cities) |-> cities[i].avg_pm25]),
                      Whole(Len(cities)))
      totalPopulation == SumSeq([i \in 1..Len(cities) |-> Whole(cities[i].population)])
      weightedAvgPm25 == weightedAverage(cities, avgPm25)
      sorted == sortedByPm25(cities)
  IN  [date |-> date,
       avg_pm25 |-> avgPm25,
       weighted_avg_pm25 |-> weightedAvgPm25,
       min_pm25 |-> MathMin([i \in 1..Len(cities) |-> Number(cities[i].min_pm25)]),
       max_pm25 |-> MathMax([i \in 1..Len(cities) |-> Number(cities[i].max_pm25)]),
       cities_reporting |-> Len(cities),
       total_population_covered |-> totalPopulation,
       cigarettes_equivalent |-> nationalMetrics(weightedAvgPm25).cigarettes_equivalent,
       years_lost_per_year |-> nationalMetrics(weightedAvgPm25).years_lost_per_year,
       who_violation_factor |-> nationalMetrics(weightedAvgPm25).who_violation_factor,
       worst_city_id |-> sorted[Len(sorted)].city_id,
       best_city_id |-> sorted[1].city_id]

(***************************************************************************)
(* The ingestion run: ingestAllCities, one action per awaited operation    *)
(***************************************************************************)
\* the instants of the model: the start of day 0, later instants of its first
\* hour, the starts of its later hours, and the starts of the later days
Instants ==
  {At(0, 0, u) : u \in 0..MaxSub} \cup {At(0, h, 0) : h \in 0..MaxHour}
    \cup {At(d, 0, 0) : d \in 0..MaxDay}

\* the invocations started so far, of all kinds
Invocations == started.runs + started.aggs + started.backfills

\* the run of a source that has not been triggered
IdleRun ==
  [pc |-> "idle", source |-> "none",
   timestamp |-> At(0, 0, 0), hourTimestamp |-> At(0, 0, 0),
   logId |-> 0, totalRecords |-> 0, citiesProcessed |-> 0,
   citiesToProcess |-> <<>>, ci |-> 0, cityId |-> 0,
   stationDataMap |-> <<>>, attempts |-> <<>>, si |-> 0, stationId |-> 0,
   readings |-> <<>>, avgPm25 |-> Null, snapshots |-> <<>>, results |-> <<>>]

\* the city of the loop
City(r) == r.citiesToProcess[r.ci]

\* the statements that reach the store, each awaited and each able to reject
StorageOps ==
  {"createLog", "selectCity", "insertCity", "selectStation", "insertStation",
   "insertReading", "insertSnapshot", "selectDaily", "insertDaily", "updateLog"}

\* the position of a city in the configuration
CityNo(slug) == CHOOSE i \in 1..Len(CITIES) : CITIES[i].slug = slug

\* the statement op rejects when run for the city, station or log numbered on
Fails(op, on) == [op |-> op, on |-> on] \in faults

\* a loop after which the log is updated whether or not it was created
NextCity_alwaysUpdate(r) ==
  LET fresh == [r EXCEPT !.cityId = 0, !.stationDataMap = <<>>, !.attempts = <<>>,
                         !.si = 0, !.stationId = 0, !.readings = <<>>,
                         !.avgPm25 = Null, !.snapshots = <<>>]
  IN  IF r.ci < Len(r.citiesToProcess)
      THEN [fresh EXCEPT !.ci = r.ci + 1, !.pc = "ensureCity"]
      ELSE [fresh EXCEPT !.ci = 0, !.pc = "updateLog"]

\* for (const city of citiesToProcess): the next city up to its first await,
\* or after the last city the end of the run
NextCity(r) ==
  LET fresh == [r EXCEPT !.cityId = 0, !.stationDataMap = <<>>, !.attempts = <<>>,
                         !.si = 0, !.stationId = 0, !.readings = <<>>,
                         !.avgPm25 = Null, !.snapshots = <<>>]
  IN  IF r.ci < Len(r.citiesToProcess)
      THEN [fresh EXCEPT !.ci = r.ci + 1, !.pc = "ensureCity"]
      ELSE [fresh EXCEPT !.ci = 0, !.pc = IF r.logId # 0 THEN "updateLog" ELSE "done"]

\* a catch that gives up the remaining cities
FailCity_abort(r) ==
  [r EXCEPT !.results = (City(r).slug :>
              [success |-> FALSE, totalStations |-> 0, validStations |-> 0,
               avgPm25 |-> Null]) @@ @,
            !.ci = 0,
            !.pc = IF r.logId # 0 THEN "updateLog" ELSE "done"]

\* catch (error): results[city.slug] = { success: false, ... }
FailCity(r) ==
  NextCity([r EXCEPT !.results = (City(r).slug :>
              [success |-> FALSE, totalStations |-> 0, validStations |-> 0,
               avgPm25 |-> Null]) @@ @])

\* results[city.slug] = { success: true, ... }; totalRecords; citiesProcessed
FinishCity(r) ==
  NextCity([r EXCEPT !.results = (City(r).slug :>
              [success |-> TRUE, totalStations |-> Len(City(r).stations),
               validStations |-> Len(r.readings), avgPm25 |-> r.avgPm25]) @@ @,
            !.totalRecords = @ + Len(r.readings),
            !.citiesProcessed = @ + 1])

\* if (!rawData || rawData.status !== 'ok' || !rawData.data) continue
Usable(r, s) ==
  /\ s \in DOMAIN r.stationDataMap
  /\ r.stationDataMap[s].status = "ok"
  /\ r.stationDataMap[s].hasData

\* a station loop that leaves for the snapshot after its first reading
NextStation_snapshotEarly(r) ==
  IF validReadings(r.readings) # <<>>
  THEN [r EXCEPT !.pc = "snapshot"]
  ELSE LET stations == City(r).stations
           later == {j \in (r.si + 1)..Len(stations) : Usable(r, stations[j])}
       IN  IF later # {}
           THEN [r EXCEPT !.si = CHOOSE j \in later : \A k \in later : j <= k,
                          !.pc = "ensureStation"]
           ELSE [r EXCEPT !.si = Len(stations) + 1, !.pc = "dailySelect"]

\* a station loop after which a city without a PM2.5 value is an error
NextStation_failsEmpty(r) ==
  LET stations == City(r).stations
      later == {j \in (r.si + 1)..Len(stations) : Usable(r, stations[j])}
  IN  IF later # {}
      THEN [r EXCEPT !.si = CHOOSE j \in later : \A k \in later : j <= k,
                     !.pc = "ensureStation"]
      ELSE IF validReadings(r.readings) = <<>>
           THEN FailCity(r)
           ELSE [r EXCEPT !.si = Len(stations) + 1, !.pc = "snapshot"]

\* for (const stationConfig of city.stations): the next station with usable
\* data up to its first await; after the last station computeCitySnapshot up
\* to its INSERT, or past it to updateDailyAggregate when no reading is valid
NextStation(r) ==
  LET stations == City(r).stations
      later == {j \in (r.si + 1)..Len(stations) : Usable(r, stations[j])}
  IN  IF later # {}
      THEN [r EXCEPT !.si = CHOOSE j \in later : \A k \in later : j <= k,
                     !.pc = "ensureStation"]
      ELSE [r EXCEPT !.si = Len(stations) + 1,
                     !.pc = IF validReadings(r.readings) = <<>>
                            THEN "dailySelect" ELSE "snapshot"]

\* the cron or GET /trigger starts ingestAllCities(env, source)
StartRun(q) ==
  /\ runs[q].pc \in {"idle", "done"}
  /\ started.runs < MaxRuns
  /\ Invocations < MaxInvocations
  /\ runs' = [runs EXCEPT ![q] =
       [IdleRun EXCEPT !.pc = "createLog", !.source = q, !.timestamp = clock,
                       !.hourTimestamp = truncateToHour(clock)]]
  /\ started' = [started EXCEPT !.runs = @ + 1]
  /\ UNCHANGED <<clock, upstream, faults, db, agg, backfill, notPipe>>

\* a log that is born completed
IngestionLogRow_completed(id, r) ==
  [id |-> id, started_at |-> r.timestamp, completed_at |-> r.timestamp,
   status |-> "completed", source |-> r.source,
   cities_processed |-> 0, records_processed |-> 0]

\* createIngestionLog: INSERT INTO ingestion_logs (started_at, status, source)
\* VALUES (?, 'running', ?); the other columns take their defaults
IngestionLogRow(id, r) ==
  [id |-> id, started_at |-> r.timestamp, completed_at |-> At(0, 0, 0),
   status |-> "running", source |-> r.source,
   cities_processed |-> 0, records_processed |-> 0]

\* try { logId = await createIngestionLog } catch: logId stays null; then
\* currentHour and citiesToProcess
CreateLog(q) ==
  /\ runs[q].pc = "createLog"
  /\ LET r == runs[q]
         id == Len(db.ingestion_logs) + 1
         row == IngestionLogRow(id, r)
         failed == Fails("createLog", 0)
     IN  /\ db' = IF failed THEN db
                  ELSE [db EXCEPT !.ingestion_logs = Append(@, row)]
         /\ runs' = [runs EXCEPT ![q] =
              NextCity([r EXCEPT !.logId = IF failed THEN 0 ELSE id,
                                 !.citiesToProcess =
                                   CitiesToProcess(CITIES, r.source, getHours(clock))])]
  /\ UNCHANGED <<clock, upstream, faults, agg, backfill, started, notPipe>>

\* ensureCity: SELECT id FROM cities WHERE slug = ?
EnsureCitySelect(q) ==
  /\ runs[q].pc = "ensureCity"
  /\ LET r == runs[q]
         i == FirstWhere(db.cities, "slug", City(r).slug)
     IN  runs' = [runs EXCEPT ![q] =
           CASE Fails("selectCity", CityNo(City(r).slug)) -> FailCity(r)
             [] i # 0 -> [r EXCEPT !.cityId = db.cities[i].id, !.pc = "fetch"]
             [] OTHER -> [r EXCEPT !.pc = "insertCity"]]
  /\ UNCHANGED <<clock, upstream, faults, db, agg, backfill, started, notPipe>>

\* ensureCity: INSERT INTO cities; a UNIQUE violation throws into the
\* city's catch
EnsureCityInsert(q) ==
  /\ runs[q].pc = "insertCity"
  /\ LET r == runs[q]
         row == [id |-> Len(db.cities) + 1, slug |-> City(r).slug,
                 population |-> City(r).population]
     IN  IF \/ Conflicts(db.cities, row, CitiesKey) # {}
            \/ Fails("insertCity", CityNo(City(r).slug))
         THEN /\ runs' = [runs EXCEPT ![q] = FailCity(r)]
              /\ db' = db
         ELSE /\ runs' = [runs EXCEPT ![q] = [r EXCEPT !.cityId = row.id, !.pc = "fetch"]]
              /\ db' = [db EXCEPT !.cities = Append(@, row)]
  /\ UNCHANGED <<clock, upstream, faults, agg, backfill, started, notPipe>>

\* await fetchStationsBatched(city.stations, token)
FetchStations(q) ==
  /\ runs[q].pc = "fetch"
  /\ LET r == runs[q]
         stations == City(r).stations
     IN  runs' = [runs EXCEPT ![q] =
           IF BatchThrows(stations, upstream)
           THEN FailCity(r)
           ELSE NextStation([r EXCEPT
                  !.stationDataMap = fetchStationsBatched(stations, upstream, clock),
                  !.attempts = [s \in Range(stations) |-> FetchOf(upstream, s).requests],
                  !.si = 0])]
  /\ UNCHANGED <<clock, upstream, faults, db, agg, backfill, started, notPipe>>

\* ensureStation: SELECT id FROM stations WHERE waqi_id = ?; the call has no
\* try of its own, a rejection is caught by the city's catch
EnsureStationSelect(q) ==
  /\ runs[q].pc = "ensureStation"
  /\ LET r == runs[q]
         i == FirstWhere(db.stations, "waqi_id", City(r).stations[r.si])
     IN  runs' = [runs EXCEPT ![q] =
           CASE Fails("selectStation", City(r).stations[r.si]) -> FailCity(r)
             [] i # 0 -> [r EXCEPT !.stationId = db.stations[i].id,
                                   !.pc = "insertReading"]
             [] OTHER -> [r EXCEPT !.pc = "insertStation"]]
  /\ UNCHANGED <<clock, upstream, faults, db, agg, backfill, started, notPipe>>

\* ensureStation: INSERT INTO stations; a UNIQUE violation throws into the
\* city's catch
EnsureStationInsert(q) ==
  /\ runs[q].pc = "insertStation"
  /\ LET r == runs[q]
         s == City(r).stations[r.si]
         row == [id |-> Len(db.stations) + 1, city_id |-> r.cityId, waqi_id |-> s,
                 located |-> r.stationDataMap[s].geo]
     IN  IF \/ Conflicts(db.stations, row, StationsKey) # {}
            \/ Fails("insertStation", s)
         THEN /\ runs' = [runs EXCEPT ![q] = FailCity(r)]
              /\ db' = db
         ELSE /\ runs' = [runs EXCEPT ![q] =
                   [r EXCEPT !.stationId = row.id, !.pc = "insertReading"]]
              /\ db' = [db EXCEPT !.stations = Append(@, row)]
  /\ UNCHANGED <<clock, upstream, faults, agg, backfill, started, notPipe>>

\* insertReading: INSERT OR REPLACE INTO readings; readings.push(reading);
\* a rejection is caught inside, null is returned and nothing is pushed
InsertReading(q) ==
  /\ runs[q].pc = "insertReading"
  /\ LET r == runs[q]
         row == ReadingRow(r.stationId, r.stationDataMap[City(r).stations[r.si]],
                           r.timestamp)
     IN  IF Fails("insertReading", City(r).stations[r.si])
         THEN /\ db' = db
              /\ runs' = [runs EXCEPT ![q] = NextStation([r EXCEPT !.stationId = 0])]
         ELSE /\ db' = [db EXCEPT !.readings = InsertOrReplace(@, row, ReadingsKey)]
              /\ runs' = [runs EXCEPT ![q] =
                   NextStation([r EXCEPT !.readings = Append(@, row),
                                         !.stationId = 0])]
  /\ UNCHANGED <<clock, upstream, faults, agg, backfill, started, notPipe>>

\* computeCitySnapshot: INSERT OR REPLACE INTO city_snapshots; a rejection is
\* caught inside and null is returned
InsertSnapshot(q) ==
  /\ runs[q].pc = "snapshot"
  /\ LET r == runs[q]
         row == SnapshotRow(r.cityId, r.readings, r.hourTimestamp, Len(City(r).stations))
     IN  IF Fails("insertSnapshot", CityNo(City(r).slug))
         THEN /\ db' = db
              /\ runs' = [runs EXCEPT ![q] = [r EXCEPT !.pc = "dailySelect"]]
         ELSE /\ db' = [db EXCEPT !.city_snapshots =
                                   InsertOrReplace(@, row, SnapshotsKey)]
              /\ runs' = [runs EXCEPT ![q] = [r EXCEPT !.avgPm25 = row.avg_pm25,
                                                       !.pc = "dailySelect"]]
  /\ UNCHANGED <<clock, upstream, faults, agg, backfill, started, notPipe>>

\* updateDailyAggregate: the SELECT of the day's snapshots, outside the
\* function's try; no snapshot, no row
DailySelect(q) ==
  /\ runs[q].pc = "dailySelect"
  /\ LET r == runs[q]
         snaps == SnapshotsOfDay(db.city_snapshots, r.cityId, DateOf(r.hourTimestamp))
     IN  runs' = [runs EXCEPT ![q] =
           CASE Fails("selectDaily", CityNo(City(r).slug)) -> FailCity(r)
             [] snaps = <<>> -> FinishCity(r)
             [] OTHER -> [r EXCEPT !.snapshots = snaps, !.pc = "dailyInsert"]]
  /\ UNCHANGED <<clock, upstream, faults, db, agg, backfill, started, notPipe>>

\* updateDailyAggregate: INSERT OR REPLACE INTO daily_aggregates; a rejection
\* is caught inside
DailyInsert(q) ==
  /\ runs[q].pc = "dailyInsert"
  /\ LET r == runs[q]
         row == DailyRow(r.cityId, DateOf(r.hourTimestamp), r.snapshots)
     IN  /\ db' = IF Fails("insertDaily", CityNo(City(r).slug)) THEN db
                  ELSE [db EXCEPT !.daily_aggregates =
                                    InsertOrReplace(@, row, DailyKey)]
         /\ runs' = [runs EXCEPT ![q] = FinishCity(r)]
  /\ UNCHANGED <<clock, upstream, faults, agg, backfill, started, notPipe>>

\* updateIngestionLog(env.DB, logId, 'completed', citiesProcessed, totalRecords);
\* the call is in no try, a rejection ends ingestAllCities with the error
UpdateLog(q) ==
  /\ runs[q].pc = "updateLog"
  /\ LET r == runs[q]
     IN  IF Fails("updateLog", 0)
         THEN /\ db' = db
              /\ runs' = [runs EXCEPT ![q] = [r EXCEPT !.pc = "failed"]]
         ELSE /\ db' = [db EXCEPT !.ingestion_logs =
                         [i \in 1..Len(@) |->
                            IF @[i].id = r.logId
                            THEN [@[i] EXCEPT !.completed_at = clock,
                                              !.status = "completed",
                                              !.cities_processed = r.citiesProcessed,
                                              !.records_processed = r.totalRecords]
                            ELSE @[i]]]
              /\ runs' = [runs EXCEPT ![q] = [r EXCEPT !.pc = "done"]]
  /\ UNCHANGED <<clock, upstream, faults, agg, backfill, started, notPipe>>

\* the positions that end a run: returned, ended by an error, or the worker
\* stopped by the platform before the function returned
Over == {"idle", "done", "failed", "killed"}

\* the platform stops the worker while ingestAllCities awaits
Kill(q) ==
  /\ runs[q].pc \notin Over
  /\ runs' = [runs EXCEPT ![q].pc = "killed"]
  /\ UNCHANGED <<clock, upstream, faults, db, agg, backfill, started, notPipe>>

(***************************************************************************)
(* The national aggregator: computeNationalAggregateForDate                *)
(***************************************************************************)
IdleAgg == [pc |-> "idle", date |-> 0, cities |-> <<>>]

\* the cron, GET /trigger (today) or one date of GET /backfill
AggStart(date) ==
  /\ agg.pc = "idle"
  /\ started.aggs < MaxAggs
  /\ Invocations < MaxInvocations
  /\ agg' = [pc |-> "select", date |-> date, cities |-> <<>>]
  /\ started' = [started EXCEPT !.aggs = @ + 1]
  /\ UNCHANGED <<clock, upstream, faults, db, runs, backfill, notPipe>>

\* the SELECT of the cities' daily aggregates; none, and the date is skipped
AggSelect ==
  /\ agg.pc = "select"
  /\ LET cities == CityData(db.daily_aggregates, db.cities, agg.date)
     IN  agg' = IF cities = <<>> THEN IdleAgg
                ELSE [agg EXCEPT !.pc = "insert", !.cities = cities]
  /\ UNCHANGED <<clock, upstream, faults, db, runs, backfill, started, notPipe>>

\* INSERT OR REPLACE INTO national_daily_aggregates
AggInsert ==
  /\ agg.pc = "insert"
  /\ db' = [db EXCEPT !.national_daily_aggregates =
              InsertOrReplace(@, NationalRow(agg.date, agg.cities), NationalKey)]
  /\ agg' = IdleAgg
  /\ UNCHANGED <<clock, upstream, faults, runs, backfill, started, notPipe>>

(***************************************************************************)
(* The OpenAQ backfill: runBackfill, one day of one sensor at a time       *)
(***************************************************************************)
IdleBackfill == [pc |-> "idle", city_id |-> 0, date |-> 0, day |-> <<>>]

\* the daily summaries fetchSensorDays may return: data.results as the
\* upstream sends it, coverage.observedCount being any number
SensorDays == {[avg |-> Whole(50), min |-> Whole(40), max |-> Whole(60), observedCount |-> 24],
               [avg |-> Whole(70), min |-> Whole(60), max |-> Whole(80), observedCount |-> 25]}

\* for (const day of dailyData): the next day, in range, of a sensor mapped to
\* a city of the store
BackfillDay(cityId, date, day) ==
  /\ backfill.pc = "idle"
  /\ started.backfills < MaxBackfills
  /\ Invocations < MaxInvocations
  /\ FirstWhere(db.cities, "id", cityId) # 0
  /\ backfill' = [pc |-> "insert", city_id |-> cityId, date |-> date, day |-> day]
  /\ started' = [started EXCEPT !.backfills = @ + 1]
  /\ UNCHANGED <<clock, upstream, faults, db, runs, agg, notPipe>>

\* INSERT OR IGNORE INTO daily_aggregates
BackfillInsert ==
  /\ backfill.pc = "insert"
  /\ db' = [db EXCEPT !.daily_aggregates =
              InsertOrIgnore(@, BackfillRow(backfill.city_id, backfill.date, backfill.day),
                             DailyKey)]
  /\ backfill' = [backfill EXCEPT !.pc = "idle"]
  /\ UNCHANGED <<clock, upstream, faults, runs, agg, started, notPipe>>

(***************************************************************************)
(* Time                                                                    *)
(***************************************************************************)
\* time passes: within the hour, into a later hour, or into a later day
Advance ==
  /\ \E t \in Instants : Before(clock, t) /\ clock' = t
  /\ UNCHANGED <<upstream, faults, db, runs, agg, backfill, started, notPipe>>

NoneStarted == [runs |-> 0, aggs |-> 0, backfills |-> 0]

\* no invocation is under way
Quiet ==
  /\ \A q \in Sources : runs[q].pc \in {"idle", "done"}
  /\ agg.pc = "idle"
  /\ backfill.pc = "idle"

\* the invocations of the workers, one after the other, as time passes
PipeNext ==
  \/ \E q \in Sources :
       \/ Quiet /\ StartRun(q)
       \/ CreateLog(q)
       \/ EnsureCitySelect(q)
       \/ EnsureCityInsert(q)
       \/ FetchStations(q)
       \/ EnsureStationSelect(q)
       \/ EnsureStationInsert(q)
       \/ InsertReading(q)
       \/ InsertSnapshot(q)
       \/ DailySelect(q)
       \/ DailyInsert(q)
       \/ UpdateLog(q)
  \/ \E date \in 0..MaxDay : Quiet /\ AggStart(date)
  \/ AggSelect
  \/ AggInsert
  \/ \E cityId \in 1..Len(CITIES), date \in 0..MaxDay, day \in SensorDays :
       Quiet /\ BackfillDay(cityId, date, day)
  \/ BackfillInsert
  \/ Advance

(***************************************************************************)
(* computeCitySnapshot on its own: the statistics of one list of readings  *)
(***************************************************************************)
\* the PM2.5 sub-indices a reading may carry
Pm25Values == {10, 20, 30, 40}

\* computeCitySnapshot not called
NoStats == [pc |-> "idle", readings |-> <<>>, snapshot |-> <<>>]

\* the readings argument: a StationReading for each value of the list, null
\* standing for a reading without PM2.5
ReadingsOf(values) ==
  [i \in 1..Len(values) |->
     [station_id |-> i, recorded_at |-> At(0, 0, 0), pm25 |-> values[i],
      aqi |-> values[i]]]

\* the lists of up to MaxReadings values, each a PM2.5 sub-index or null
ValueLists ==
  UNION {[1..n -> {Whole(v) : v \in Pm25Values} \cup {Null}] : n \in 1..MaxReadings}

\* validReadings = readings.filter(...); if (validReadings.length === 0)
\* return null
StatsFilter ==
  /\ stats.pc = "filter"
  /\ stats' = [stats EXCEPT !.pc = IF validReadings(stats.readings) = <<>>
                                   THEN "skipped" ELSE "compute"]
  /\ UNCHANGED notStats

\* the sort and the statistics, up to the snapshot object
StatsCompute ==
  /\ stats.pc = "compute"
  /\ stats' = [stats EXCEPT !.pc = "done",
                            !.snapshot = SnapshotRow(1, stats.readings, At(0, 0, 0),
                                                     Len(stats.readings))]
  /\ UNCHANGED notStats

StatsNext == StatsFilter \/ StatsCompute

(***************************************************************************)
(* The two writers of city_snapshots, each on its own: the row's counts    *)
(* and quality label                                                       *)
(***************************************************************************)
\* lib/db.ts storeCitySnapshot:
\* snapshot.validStations >= snapshot.totalStations * 0.8 ? 'healthy' : 'degraded'
storeQualityStatus(valid, total) ==
  IF 5 * valid >= 4 * total THEN "healthy" ELSE "degraded"

\* the calls that bind a snapshot row: a city of 1..MaxConfigured stations of
\* which at least one is valid
LabelCalls ==
  {[fn |-> f, pc |-> "bind", total |-> t, valid |-> v, row |-> <<>>] :
     f \in {"computeCitySnapshot", "storeCitySnapshot"},
     t \in 1..MaxConfigured, v \in 1..MaxConfigured}

\* the ingestion worker's computeCitySnapshot binds its row
LabelCompute ==
  /\ call.fn = "computeCitySnapshot"
  /\ call.pc = "bind"
  /\ call' = [call EXCEPT !.pc = "done",
                          !.row = [total_stations |-> call.total,
                                   valid_stations |-> call.valid,
                                   quality_status |->
                                     qualityStatus(call.valid, call.total)]]
  /\ UNCHANGED notCall

\* lib/db.ts storeCitySnapshot binds its row
LabelStore ==
  /\ call.fn = "storeCitySnapshot"
  /\ call.pc = "bind"
  /\ call' = [call EXCEPT !.pc = "done",
                          !.row = [total_stations |-> call.total,
                                   valid_stations |-> call.valid,
                                   quality_status |->
                                     storeQualityStatus(call.valid, call.total)]]
  /\ UNCHANGED notCall

LabelNext == LabelCompute \/ LabelStore

(***************************************************************************)
(* The health metrics of the three workers, each applied to the same two   *)
(* averages                                                                *)
(***************************************************************************)
\* the averages: the halves from 0 to MaxHalfPm25 / 2
Averages == {Num(k, 2) : k \in 0..MaxHalfPm25}

Workers == {"ingestion", "aggregator", "backfill"}

\* the metrics a worker computes for the average p
MetricsOf(worker, p) ==
  CASE worker = "ingestion" -> dailyMetrics(p)
    [] worker = "aggregator" -> nationalMetrics(p)
    [] OTHER -> backfillMetrics(p)

\* a worker computes its metrics for the two averages
Metrics(worker) ==
  /\ call.fn = "metrics"
  /\ worker \notin DOMAIN call.out
  /\ call' = [call EXCEPT !.out = (worker :> [p |-> MetricsOf(worker, call.p),
                                               q |-> MetricsOf(worker, call.q)]) @@ @]
  /\ UNCHANGED notCall

MetricsNext == \E worker \in Workers : Metrics(worker)

(***************************************************************************)
(* The national rollup on its own: computeNationalAggregateForDate past    *)
(* its SELECT, for one list of reporting cities                            *)
(***************************************************************************)
\* the rows the SELECT may return for a city: its daily average, with
\* minimum and maximum around it, and its population, 0 for none
CityDataRows ==
  {[avg_pm25 |-> Whole(a), min_pm25 |-> Whole(a - 5), max_pm25 |-> Whole(a + 5),
    population |-> n] : a \in {10, 20, 30}, n \in 0..MaxPopulation}

\* the averages and the rest of the row, up to the bind
NationalCompute ==
  /\ call.fn = "computeNationalAggregateForDate"
  /\ call.pc = "compute"
  /\ call' = [call EXCEPT !.pc = "done", !.row = NationalRow(0, call.cities)]
  /\ UNCHANGED notCall

NationalNext == NationalCompute

(***************************************************************************)
(* The validators of the site's library: lib/validation.ts                 *)
(***************************************************************************)
\* the values of a JSON field that are not numbers: NaN, undefined, the
\* string "-", and the string of the digits of n
NaN == [t |-> "nan", n |-> 0, d |-> 1]
Undefined == [t |-> "undefined", n |-> 0, d |-> 1]
Dash == [t |-> "dash", n |-> 0, d |-> 1]
Digits(n) == [t |-> "digits", n |-> n, d |-> 1]

\* bounds of PM2.5 readings with the reasonable maximum above the possible
PM25_BOUNDS_swapped ==
  [MIN |-> 0, MAX_REASONABLE |-> 1500, MAX_POSSIBLE |-> 999,
   TYPICAL_MIN |-> 5, TYPICAL_MAX |-> 500]

\* reasonable bounds for PM2.5 readings in India
PM25_BOUNDS ==
  [MIN |-> 0, MAX_REASONABLE |-> 999, MAX_POSSIBLE |-> 1500,
   TYPICAL_MIN |-> 5, TYPICAL_MAX |-> 500]

\* { isValid: errors.length === 0, errors, warnings }, by the codes
ValidationResult(errors, warnings) ==
  [isValid |-> errors = <<>>, errors |-> errors, warnings |-> warnings]

validatePm25Value(value) ==
  IF IsNull(value) \/ value = Undefined
  THEN ValidationResult(<<"NULL_VALUE">>, <<>>)
  ELSE IF value = NaN THEN ValidationResult(<<"INVALID_TYPE">>, <<>>)
  ELSE ValidationResult(
         (IF RLess(value, Whole(PM25_BOUNDS.MIN)) THEN <<"NEGATIVE_VALUE">> ELSE <<>>)
           \o (IF RLess(Whole(PM25_BOUNDS.MAX_POSSIBLE), value)
               THEN <<"IMPOSSIBLE_VALUE">> ELSE <<>>),
         (IF /\ ~RLess(Whole(PM25_BOUNDS.MAX_POSSIBLE), value)
             /\ RLess(Whole(PM25_BOUNDS.MAX_REASONABLE), value)
          THEN <<"EXTREME_VALUE">> ELSE <<>>)
           \o (IF /\ RLess(Whole(0), value)
                  /\ RLess(value, Whole(PM25_BOUNDS.TYPICAL_MIN))
               THEN <<"SUSPICIOUSLY_LOW">> ELSE <<>>))

\* parseInt(value, 10) of the string of the digits of a number
parseInt(value) == Whole(value.n)

validateAqiValue(value) ==
  IF IsNull(value) \/ value = Undefined
  THEN ValidationResult(<<"NULL_VALUE">>, <<>>)
  ELSE IF value = Dash THEN ValidationResult(<<"NO_DATA">>, <<>>)
  ELSE LET numValue == IF value.t = "digits" THEN parseInt(value) ELSE value
       IN  IF numValue = NaN THEN ValidationResult(<<"INVALID_TYPE">>, <<>>)
           ELSE ValidationResult(
                  (IF RLess(numValue, Whole(AQI_BOUNDS.MIN))
                   THEN <<"NEGATIVE_VALUE">> ELSE <<>>)
                    \o (IF numValue = Whole(AQI_BOUNDS.ERROR_CODE)
                        THEN <<"ERROR_CODE">> ELSE <<>>),
                  IF RLess(Whole(AQI_BOUNDS.MAX), numValue)
                  THEN <<"EXCEEDS_SCALE">> ELSE <<>>)

\* a response is whether it is an object, its status, whether it has a data
\* object, and the aqi and whether there is a time object in the data
validateWAQIResponse(response) ==
  IF ~response.object THEN ValidationResult(<<"INVALID_RESPONSE">>, <<>>)
  ELSE LET api == IF response.status # "ok" THEN <<"API_ERROR">> ELSE <<>>
       IN  IF ~response.hasData
           THEN ValidationResult(api \o <<"MISSING_DATA">>, <<>>)
           ELSE ValidationResult(
                  api \o (IF response.aqi = Whole(AQI_BOUNDS.ERROR_CODE)
                          THEN <<"ERROR_CODE">> ELSE <<>>),
                  (IF response.aqi = Undefined THEN <<"MISSING_AQI">>
                   ELSE IF response.aqi = Dash THEN <<"NO_DATA">> ELSE <<>>)
                    \o (IF ~response.hasTime THEN <<"MISSING_TIME">> ELSE <<>>))

\* the values tested: the halves from below 0 to beyond the possible
\* maximum, the infinities, and what is no number
Pm25Inputs ==
  {Num(k, 2) : k \in (0 - MaxBeyond)..(2 * PM25_BOUNDS.MAX_POSSIBLE + MaxBeyond)}
    \cup {PosInf, NegInf, NaN, Null, Undefined}

\* the index values tested: numbers and strings of digits around the scale
\* and the error code, and what is no number
AqiInputs ==
  {Whole(k) : k \in (0 - MaxBeyond)..(AQI_BOUNDS.ERROR_CODE + MaxBeyond)}
    \cup {Digits(k) : k \in 0..(AQI_BOUNDS.ERROR_CODE + MaxBeyond)}
    \cup {PosInf, NegInf, NaN, Null, Undefined, Dash}

\* the responses tested
WAQIResponses ==
  [object : BOOLEAN, status : {"ok", "error"}, hasData : BOOLEAN, hasTime : BOOLEAN,
   aqi : {Undefined, Dash, Whole(AQI_BOUNDS.ERROR_CODE), Whole(AQI_BOUNDS.MAX),
          Digits(AQI_BOUNDS.ERROR_CODE)}]

\* a call of a validator, and its return
Validate ==
  /\ call.fn \in {"validatePm25Value", "validateAqiValue", "validateWAQIResponse"}
  /\ call.pc = "call"
  /\ call' = [call EXCEPT
                !.pc = "done",
                !.result = CASE call.fn = "validatePm25Value" -> validatePm25Value(call.value)
                             [] call.fn = "validateAqiValue" -> validateAqiValue(call.value)
                             [] call.fn = "validateWAQIResponse" ->
                                  validateWAQIResponse(call.value)]
  /\ UNCHANGED notCall

ValidateNext == Validate

(***************************************************************************)
(* The data quality report of the site's library: lib/validation.ts,       *)
(* generateDataQualityReport over the stations of a city snapshot          *)
(***************************************************************************)
\* cross-station variance thresholds: 3.0 and 0.2
VARIANCE_THRESHOLDS ==
  [MAX_DEVIATION_FACTOR |-> Whole(3), MIN_DEVIATION_FACTOR |-> Num(1, 5)]

\* the anomaly of a station, by its type; no anomaly is the empty list
detectImpossibleValues(station) ==
  IF IsNull(station.pm25) THEN <<>>
  ELSE IF station.pm25 = Whole(0)
       THEN <<[stationId |-> station.station_id, type |-> "flatline"]>>
  ELSE IF /\ RLess(Whole(100), station.pm25)
          /\ station.pm25.d = 1 /\ station.pm25.n % 100 = 0
       THEN <<[stationId |-> station.station_id, type |-> "impossible"]>>
  ELSE <<>>

\* the stations far from the median of the city, for values that are not
\* negative: pm25 / median > 3, or pm25 / median < 0.2 with median > 20
detectOutlierStations(stations) ==
  LET validStations == SelectSeq(stations, LAMBDA r : ~IsNull(r.pm25))
      pm25Values == SortAsc([i \in 1..Len(validStations) |-> validStations[i].pm25])
      median == pm25Values[Len(pm25Values) \div 2 + 1]
      outlier(r) ==
        \/ RLess(RMul(VARIANCE_THRESHOLDS.MAX_DEVIATION_FACTOR, median), r.pm25)
        \/ /\ RLess(r.pm25, RMul(VARIANCE_THRESHOLDS.MIN_DEVIATION_FACTOR, median))
           /\ RLess(Whole(20), median)
      flagged == SelectSeq(validStations, outlier)
  IN  IF Len(validStations) < 3 THEN <<>>
      ELSE [i \in 1..Len(flagged) |->
              [stationId |-> flagged[i].station_id, type |-> "outlier"]]

RECURSIVE Flatten(_)
\* anomalies.push of each list in turn
Flatten(lists) == IF lists = <<>> THEN <<>> ELSE Head(lists) \o Flatten(Tail(lists))

\* the report of a snapshot whose stations are fresh: the counts are those
\* of the snapshot, the errors those of validatePm25Value
generateDataQualityReport(snapshot) ==
  LET failed == SelectSeq(snapshot.stations,
                          LAMBDA r : ~IsNull(r.pm25) /\ ~validatePm25Value(r.pm25).isValid)
      anomalies ==
        Flatten([i \in 1..Len(snapshot.stations) |->
                   detectImpossibleValues(snapshot.stations[i])])
          \o detectOutlierStations(snapshot.stations)
      valid == snapshot.validStationCount
      total == snapshot.totalStationCount
  IN  [overallStatus |->
         IF valid = 0 THEN "unavailable"
         ELSE IF 10 * valid < 3 * total \/ failed # <<>> THEN "critical"
         ELSE IF 10 * valid < 7 * total \/ anomalies # <<>> THEN "degraded"
         ELSE "healthy",
       stationsChecked |-> total,
       stationsValid |-> valid,
       stationsFailed |-> Len(failed),
       stationsAnomalous |-> Len(anomalies),
       anomalies |-> anomalies]

\* the values of the readings under the anomaly detection: the exact zero,
\* a round hundred, and values that lie far apart
AnomalyValues == {0, 10, 50, 100, 200}

AnomalyLists ==
  UNION {[1..n -> {Whole(v) : v \in AnomalyValues} \cup {Null}] : n \in 1..MaxReadings}

\* the report of the snapshot computed from the readings
GenerateReport ==
  /\ call.fn = "generateDataQualityReport"
  /\ call.pc = "call"
  /\ stats.pc = "done"
  /\ call' = [call EXCEPT
                !.pc = "done",
                !.report = generateDataQualityReport(
                             [stations |-> stats.readings,
                              validStationCount |-> stats.snapshot.valid_stations,
                              totalStationCount |-> stats.snapshot.total_stations])]
  /\ UNCHANGED notCall

AnomalyNext == StatsFilter \/ StatsCompute \/ GenerateReport

(***************************************************************************)
(* GET /backfill of the aggregator: backfillNationalAggregates, dates as   *)
(* day numbers (new Date of a YYYY-MM-DD string is that day's midnight     *)
(* UTC, setDate(getDate() + 1) the next day's, toISOString its date)       *)
(***************************************************************************)
Dates == 0..MaxDate

\* the statements of computeNationalAggregateForDate that may throw
DateOps == {"selectNational", "insertNational"}

\* the daily aggregates of the seeded city on the populated dates, as the
\* OpenAQ backfill leaves them
DailyRowsOn(populated, day) ==
  LET F[d \in -1..MaxDate] ==
        IF d = -1 THEN <<>>
        ELSE IF d \in populated THEN Append(F[d - 1], BackfillRow(1, d, day))
        ELSE F[d - 1]
  IN  F[MaxDate]

\* const current = new Date(start); processed = 0; errors = 0
BackfillCall(startDate, endDate) ==
  [fn |-> "backfillNationalAggregates", pc |-> "while",
   start |-> startDate, end |-> endDate, current |-> startDate,
   processed |-> 0, errors |-> 0, cities |-> <<>>,
   attempts |-> <<>>, result |-> <<>>]

\* an iteration whose error ends the loop
NextDate_stopOnError(c, outcome) ==
  [c EXCEPT !.pc = "while",
            !.current = IF outcome = "error" THEN c.end + 1 ELSE @ + 1,
            !.cities = <<>>,
            !.processed = IF outcome = "processed" THEN @ + 1 ELSE @,
            !.errors = IF outcome = "error" THEN @ + 1 ELSE @,
            !.attempts = Append(@, [date |-> c.current, outcome |-> outcome])]

\* the end of an iteration: the outcome of the date, and setDate(getDate() + 1)
NextDate(c, outcome) ==
  [c EXCEPT !.pc = "while",
            !.current = @ + 1,
            !.cities = <<>>,
            !.processed = IF outcome = "processed" THEN @ + 1 ELSE @,
            !.errors = IF outcome = "error" THEN @ + 1 ELSE @,
            !.attempts = Append(@, [date |-> c.current, outcome |-> outcome])]

\* while (current <= end): the SELECT of computeNationalAggregateForDate for
\* dateStr; it throws into the catch, or returns no city and the date is
\* skipped, or the cities to roll up
BackfillSelect ==
  /\ call.fn = "backfillNationalAggregates"
  /\ call.pc = "while"
  /\ call.current <= call.end
  /\ LET cities == CityData(db.daily_aggregates, db.cities, call.current)
     IN  call' = IF Fails("selectNational", call.current) THEN NextDate(call, "error")
                 ELSE IF cities = <<>> THEN NextDate(call, "skipped")
                 ELSE [call EXCEPT !.pc = "insert", !.cities = cities]
  /\ UNCHANGED notCall

\* INSERT OR REPLACE INTO national_daily_aggregates for dateStr; it throws
\* into the catch, or the date is processed
BackfillReplace ==
  /\ call.fn = "backfillNationalAggregates"
  /\ call.pc = "insert"
  /\ IF Fails("insertNational", call.current)
     THEN /\ call' = NextDate(call, "error")
          /\ db' = db
     ELSE /\ call' = NextDate(call, "processed")
          /\ db' = [db EXCEPT !.national_daily_aggregates =
                      InsertOrReplace(@, NationalRow(call.current, call.cities),
                                      NationalKey)]
  /\ UNCHANGED <<fetchVars, shardVars, batchVars, statsVars, clock, upstream, faults,
                 runs, agg, backfill, started>>

\* current > end: return { processed, errors }
BackfillReturn ==
  /\ call.fn = "backfillNationalAggregates"
  /\ call.pc = "while"
  /\ call.current > call.end
  /\ call' = [call EXCEPT !.pc = "done",
                          !.result = [processed |-> call.processed,
                                      errors |-> call.errors]]
  /\ UNCHANGED notCall

BackfillNext == BackfillSelect \/ BackfillReplace \/ BackfillReturn

\* the INSERT is settled: it has returned or thrown
InsertSettled ==
  /\ call.fn = "backfillNationalAggregates"
  /\ call.pc = "insert"
  /\ \E outcome \in {"processed", "error"} : call' = NextDate(call, outcome)

(***************************************************************************)
(* Specifications                                                          *)
(***************************************************************************)
\* GET /backfill?start=..&end=.. on a store where the seeded city has a
\* daily aggregate on any of the dates, with up to MaxDateFaults statements
\* failing
BackfillInit ==
  /\ \E startDate \in Dates, endDate \in Dates : call = BackfillCall(startDate, endDate)
  /\ faults \in {f \in SUBSET [op : DateOps, on : Dates] : Cardinality(f) <= MaxDateFaults}
  /\ \E populated \in SUBSET Dates, day \in SensorDays :
       db = [EmptyDb EXCEPT !.daily_aggregates = DailyRowsOn(populated, day)]
  /\ stats = NoStats
  /\ clock = At(0, 0, 0)
  /\ upstream = [s \in StationIds |-> "live"]
  /\ runs = [q \in Sources |-> IdleRun]
  /\ agg = IdleAgg
  /\ backfill = IdleBackfill
  /\ started = NoneStarted
  /\ fetch = FetchStart
  /\ events = <<>>
  /\ cityList = <<>>
  /\ shard = ShardStart(0)
  /\ batch = BatchStart(0)
  /\ flights = <<>>
  /\ results = {}

\* the readings of a city-hour, any list of the values under the anomaly
\* detection
AnomalyInit ==
  /\ \E values \in AnomalyLists :
       stats = [pc |-> "filter", readings |-> ReadingsOf(values), snapshot |-> <<>>]
  /\ call = [fn |-> "generateDataQualityReport", pc |-> "call", report |-> <<>>]
  /\ clock = At(0, 0, 0)
  /\ upstream = [s \in StationIds |-> "live"]
  /\ faults = {}
  /\ db = EmptyDb
  /\ runs = [q \in Sources |-> IdleRun]
  /\ agg = IdleAgg
  /\ backfill = IdleBackfill
  /\ started = NoneStarted
  /\ fetch = FetchStart
  /\ events = <<>>
  /\ cityList = <<>>
  /\ shard = ShardStart(0)
  /\ batch = BatchStart(0)
  /\ flights = <<>>
  /\ results = {}

\* a validator is called with any of the values tested
ValidateInit ==
  /\ \/ \E value \in Pm25Inputs :
          call = [fn |-> "validatePm25Value", pc |-> "call", value |-> value,
                  result |-> <<>>]
     \/ \E value \in AqiInputs :
          call = [fn |-> "validateAqiValue", pc |-> "call", value |-> value,
                  result |-> <<>>]
     \/ \E value \in WAQIResponses :
          call = [fn |-> "validateWAQIResponse", pc |-> "call", value |-> value,
                  result |-> <<>>]
  /\ stats = NoStats
  /\ clock = At(0, 0, 0)
  /\ upstream = [s \in StationIds |-> "live"]
  /\ faults = {}
  /\ db = EmptyDb
  /\ runs = [q \in Sources |-> IdleRun]
  /\ agg = IdleAgg
  /\ backfill = IdleBackfill
  /\ started = NoneStarted
  /\ fetch = FetchStart
  /\ events = <<>>
  /\ cityList = <<>>
  /\ shard = ShardStart(0)
  /\ batch = BatchStart(0)
  /\ flights = <<>>
  /\ results = {}

\* the SELECT has returned any list of 1..MaxReporting cities, city_id by
\* position
NationalInit ==
  /\ \E n \in 1..MaxReporting :
       \E rows \in [1..n -> CityDataRows] :
         call = [fn |-> "computeNationalAggregateForDate", pc |-> "compute",
                 cities |-> [i \in 1..n |-> [city_id |-> i] @@ rows[i]],
                 row |-> <<>>]
  /\ stats = NoStats
  /\ clock = At(0, 0, 0)
  /\ upstream = [s \in StationIds |-> "live"]
  /\ faults = {}
  /\ db = EmptyDb
  /\ runs = [q \in Sources |-> IdleRun]
  /\ agg = IdleAgg
  /\ backfill = IdleBackfill
  /\ started = NoneStarted
  /\ fetch = FetchStart
  /\ events = <<>>
  /\ cityList = <<>>
  /\ shard = ShardStart(0)
  /\ batch = BatchStart(0)
  /\ flights = <<>>
  /\ results = {}

\* two averages p <= q, no worker having computed yet
MetricsInit ==
  /\ \E p \in Averages, q \in Averages :
       /\ RLeq(p, q)
       /\ call = [fn |-> "metrics", pc |-> "compute", p |-> p, q |-> q, out |-> <<>>]
  /\ stats = NoStats
  /\ clock = At(0, 0, 0)
  /\ upstream = [s \in StationIds |-> "live"]
  /\ faults = {}
  /\ db = EmptyDb
  /\ runs = [q \in Sources |-> IdleRun]
  /\ agg = IdleAgg
  /\ backfill = IdleBackfill
  /\ started = NoneStarted
  /\ fetch = FetchStart
  /\ events = <<>>
  /\ cityList = <<>>
  /\ shard = ShardStart(0)
  /\ batch = BatchStart(0)
  /\ flights = <<>>
  /\ results = {}

\* either writer called for a city with any counts
LabelInit ==
  /\ call \in {c \in LabelCalls : c.valid <= c.total}
  /\ stats = NoStats
  /\ clock = At(0, 0, 0)
  /\ upstream = [s \in StationIds |-> "live"]
  /\ faults = {}
  /\ db = EmptyDb
  /\ runs = [q \in Sources |-> IdleRun]
  /\ agg = IdleAgg
  /\ backfill = IdleBackfill
  /\ started = NoneStarted
  /\ fetch = FetchStart
  /\ events = <<>>
  /\ cityList = <<>>
  /\ shard = ShardStart(0)
  /\ batch = BatchStart(0)
  /\ flights = <<>>
  /\ results = {}

\* computeCitySnapshot called with any list of readings
StatsInit ==
  /\ \E values \in ValueLists :
       stats = [pc |-> "filter", readings |-> ReadingsOf(values), snapshot |-> <<>>]
  /\ clock = At(0, 0, 0)
  /\ upstream = [s \in StationIds |-> "live"]
  /\ faults = {}
  /\ db = EmptyDb
  /\ call = NoCall
  /\ runs = [q \in Sources |-> IdleRun]
  /\ agg = IdleAgg
  /\ backfill = IdleBackfill
  /\ started = NoneStarted
  /\ fetch = FetchStart
  /\ events = <<>>
  /\ cityList = <<>>
  /\ shard = ShardStart(0)
  /\ batch = BatchStart(0)
  /\ flights = <<>>
  /\ results = {}

FetchInit ==
  /\ fetch = FetchStart
  /\ events = <<>>
  /\ cityList = <<>>
  /\ shard = ShardStart(0)
  /\ batch = BatchStart(0)
  /\ flights = <<>>
  /\ results = {}
  /\ clock = At(0, 0, 0)
  /\ upstream = [s \in StationIds |-> "live"]
  /\ faults = {}
  /\ db = EmptyDb
  /\ call = NoCall
  /\ stats = NoStats
  /\ runs = [q \in Sources |-> IdleRun]
  /\ agg = IdleAgg
  /\ backfill = IdleBackfill
  /\ started = NoneStarted

BatchInit ==
  /\ \E n \in 0..MaxStations :
       /\ batch = BatchStart(n)
       /\ flights = [s \in 1..n |-> NotStarted]
  /\ results = {}
  /\ fetch = FetchStart
  /\ events = <<>>
  /\ cityList = <<>>
  /\ shard = ShardStart(0)
  /\ clock = At(0, 0, 0)
  /\ upstream = [s \in StationIds |-> "live"]
  /\ faults = {}
  /\ db = EmptyDb
  /\ call = NoCall
  /\ stats = NoStats
  /\ runs = [q \in Sources |-> IdleRun]
  /\ agg = IdleAgg
  /\ backfill = IdleBackfill
  /\ started = NoneStarted

ShardInit ==
  /\ \E n \in 0..MaxCities : cityList = [i \in 1..n |-> i]
  /\ \E h \in 0..(HoursPerDay - 1) : shard = ShardStart(h)
  /\ fetch = FetchStart
  /\ events = <<>>
  /\ batch = BatchStart(0)
  /\ flights = <<>>
  /\ results = {}
  /\ clock = At(0, 0, 0)
  /\ upstream = [s \in StationIds |-> "live"]
  /\ faults = {}
  /\ db = EmptyDb
  /\ call = NoCall
  /\ stats = NoStats
  /\ runs = [q \in Sources |-> IdleRun]
  /\ agg = IdleAgg
  /\ backfill = IdleBackfill
  /\ started = NoneStarted

\* an empty store but for the seeded city, no run under way, and the
\* endpoints behaving in any of the ways, at the start of day 0
Init ==
  /\ clock = At(0, 0, 0)
  /\ upstream \in Scenarios
  /\ faults = {}
  /\ db = EmptyDb
  /\ call = NoCall
  /\ stats = NoStats
  /\ runs = [q \in Sources |-> IdleRun]
  /\ agg = IdleAgg
  /\ backfill = IdleBackfill
  /\ started = NoneStarted
  /\ fetch = FetchStart
  /\ events = <<>>
  /\ cityList = <<>>
  /\ shard = ShardStart(0)
  /\ batch = BatchStart(0)
  /\ flights = <<>>
  /\ results = {}

Spec == Init /\ [][PipeNext]_vars

\* the pipeline run twice for one hour: a manual ingestion run over all the
\* cities, then the national aggregation of the day, and again, while time
\* passes within the hour
RerunNext ==
  \/ /\ Quiet
     /\ started.aggs = started.runs
     /\ StartRun("manual")
  \/ CreateLog("manual")
  \/ EnsureCitySelect("manual")
  \/ EnsureCityInsert("manual")
  \/ FetchStations("manual")
  \/ EnsureStationSelect("manual")
  \/ EnsureStationInsert("manual")
  \/ InsertReading("manual")
  \/ InsertSnapshot("manual")
  \/ DailySelect("manual")
  \/ DailyInsert("manual")
  \/ UpdateLog("manual")
  \/ /\ Quiet
     /\ started.aggs < started.runs
     /\ AggStart(DateOf(clock))
  \/ AggSelect
  \/ AggInsert
  \/ /\ Advance
     /\ truncateToHour(clock') = truncateToHour(clock)

\* the statements that may reject, each with what it is run for
FaultPoints ==
  [op : {"createLog", "updateLog"}, on : {0}]
    \cup [op : {"selectCity", "insertCity", "insertSnapshot", "selectDaily",
                "insertDaily"}, on : 1..Len(CITIES)]
    \cup [op : {"selectStation", "insertStation", "insertReading"}, on : StationIds]

\* the endpoints of a behaviour, failing ones included: at most one not live
FaultScenarios ==
  {up \in [StationIds -> Behaviours \cup FailingBehaviours] :
     Cardinality({s \in StationIds : up[s] # "live"}) <= 1}

\* one run, of either source, in an even or an odd hour, over endpoints of
\* which one may fail, with at most one statement of the store rejecting
\* the endpoints of a behaviour with the error code: all live but one
SentinelScenarios ==
  {up \in [StationIds -> {"live"} \cup SentinelBehaviours] :
     Cardinality({s \in StationIds : up[s] # "live"}) = 1}

\* a run against endpoints of which one sends the error code
SentinelInit ==
  /\ clock \in {At(0, h, 0) : h \in 0..MaxHour}
  /\ upstream \in SentinelScenarios
  /\ faults = {}
  /\ db = EmptyDb
  /\ call = NoCall
  /\ stats = NoStats
  /\ runs = [q \in Sources |-> IdleRun]
  /\ agg = IdleAgg
  /\ backfill = IdleBackfill
  /\ started = NoneStarted
  /\ fetch = FetchStart
  /\ events = <<>>
  /\ cityList = <<>>
  /\ shard = ShardStart(0)
  /\ batch = BatchStart(0)
  /\ flights = <<>>
  /\ results = {}

FaultInit ==
  /\ clock \in {At(0, h, 0) : h \in 0..MaxHour}
  /\ upstream \in FaultScenarios
  /\ faults \in {{}} \cup {{f} : f \in FaultPoints}
  /\ db = EmptyDb
  /\ call = NoCall
  /\ stats = NoStats
  /\ runs = [q \in Sources |-> IdleRun]
  /\ agg = IdleAgg
  /\ backfill = IdleBackfill
  /\ started = NoneStarted
  /\ fetch = FetchStart
  /\ events = <<>>
  /\ cityList = <<>>
  /\ shard = ShardStart(0)
  /\ batch = BatchStart(0)
  /\ flights = <<>>
  /\ results = {}

FaultNext ==
  \/ \E q \in Sources :
       \/ /\ started.runs = 0
          /\ StartRun(q)
       \/ CreateLog(q)
       \/ EnsureCitySelect(q)
       \/ EnsureCityInsert(q)
       \/ FetchStations(q)
       \/ EnsureStationSelect(q)
       \/ EnsureStationInsert(q)
       \/ InsertReading(q)
       \/ InsertSnapshot(q)
       \/ DailySelect(q)
       \/ DailyInsert(q)
       \/ UpdateLog(q)
       \/ Kill(q)
  \/ Advance

\* the cron's run and a manual run, each triggered once at the same instant
\* of an even or an odd hour; every statement of the store is atomic, the two
\* runs interleave at their awaits
ConcurrentInit ==
  /\ clock \in {At(0, h, 0) : h \in 0..MaxHour}
  /\ upstream \in Scenarios
  /\ faults = {}
  /\ db = EmptyDb
  /\ call = NoCall
  /\ stats = NoStats
  /\ runs = [q \in Sources |-> IdleRun]
  /\ agg = IdleAgg
  /\ backfill = IdleBackfill
  /\ started = NoneStarted
  /\ fetch = FetchStart
  /\ events = <<>>
  /\ cityList = <<>>
  /\ shard = ShardStart(0)
  /\ batch = BatchStart(0)
  /\ flights = <<>>
  /\ results = {}

\* an ingestion run and the passes of the aggregator, which nothing keeps
\* apart: the two workers are invoked by their own crons and routes
OverlapNext ==
  \/ \E q \in Sources :
       \/ /\ started.runs = 0
          /\ StartRun(q)
       \/ CreateLog(q)
       \/ EnsureCitySelect(q)
       \/ EnsureCityInsert(q)
       \/ FetchStations(q)
       \/ EnsureStationSelect(q)
       \/ EnsureStationInsert(q)
       \/ InsertReading(q)
       \/ InsertSnapshot(q)
       \/ DailySelect(q)
       \/ DailyInsert(q)
       \/ UpdateLog(q)
  \/ \E date \in 0..MaxDay : AggStart(date)
  \/ AggSelect
  \/ AggInsert

ConcurrentNext ==
  \E q \in Sources :
    \/ /\ runs[q].pc = "idle"
       /\ StartRun(q)
    \/ CreateLog(q)
    \/ EnsureCitySelect(q)
    \/ EnsureCityInsert(q)
    \/ FetchStations(q)
    \/ EnsureStationSelect(q)
    \/ EnsureStationInsert(q)
    \/ InsertReading(q)
    \/ InsertSnapshot(q)
    \/ DailySelect(q)
    \/ DailyInsert(q)
    \/ UpdateLog(q)

RerunSpec == Init /\ [][RerunNext]_vars
NationalSpec == NationalInit /\ [][NationalNext]_vars
AnomalySpec == AnomalyInit /\ [][AnomalyNext]_vars
ValidateSpec == ValidateInit /\ [][ValidateNext]_vars
SentinelSpec == SentinelInit /\ [][FaultNext]_vars
BackfillSpec == BackfillInit /\ [][BackfillNext]_vars
\* every await of the loop returns or throws, and the loop goes on
BackfillFair ==
  /\ BackfillSpec
  /\ WF_vars(BackfillSelect)
  /\ WF_call(InsertSettled)
  /\ WF_vars(BackfillReturn)
MetricsSpec == MetricsInit /\ [][MetricsNext]_vars
LabelSpec == LabelInit /\ [][LabelNext]_vars

(***************************************************************************)
(* The city-day rollup on its own: updateDailyAggregate over the snapshots *)
(* of one city and date                                                    *)
(***************************************************************************)
\* PM2.5 of a station in an hour: a flat 0, or a value
StationValues == {0, 10, 30}

\* what computeCitySnapshot stored for an hour of the date: nothing, or the
\* snapshot of two readings
HourSnapshots(h) ==
  {<<>>} \cup
  {<<SnapshotRow(1, <<[pm25 |-> Whole(p[1])], [pm25 |-> Whole(p[2])]>>, At(0, h, 0), 2)>> :
     p \in {q \in StationValues \X StationValues : q[1] <= q[2]}}

RECURSIVE Concat(_, _)
\* the rows of hours h..MaxSnapshotHour in a table
Concat(f, h) == IF h > MaxSnapshotHour THEN <<>> ELSE f[h] \o Concat(f, h + 1)

\* the SELECT of updateDailyAggregate; no snapshot, return
RollupSelect ==
  /\ call.fn = "updateDailyAggregate"
  /\ call.pc = "select"
  /\ LET snaps == SnapshotsOfDay(db.city_snapshots, call.cityId, call.date)
     IN  call' = [call EXCEPT !.snapshots = snaps,
                              !.pc = IF snaps = <<>> THEN "done" ELSE "insert"]
  /\ UNCHANGED notCall

\* the row computed from the snapshots and INSERT OR REPLACEd
RollupInsert ==
  /\ call.fn = "updateDailyAggregate"
  /\ call.pc = "insert"
  /\ db' = [db EXCEPT !.daily_aggregates =
              InsertOrReplace(@, DailyRow(call.cityId, call.date, call.snapshots),
                              DailyKey)]
  /\ call' = [call EXCEPT !.pc = "done"]
  /\ UNCHANGED <<clock, upstream, faults, runs, agg, backfill, started,
                 fetchVars, shardVars, batchVars, statsVars>>

RollupNext == RollupSelect \/ RollupInsert

\* city 1 has a snapshot for any of the hours 0..MaxSnapshotHour of date 0
RollupInit ==
  /\ \E f \in [0..MaxSnapshotHour -> UNION {HourSnapshots(h) : h \in 0..MaxSnapshotHour}] :
       /\ \A h \in 0..MaxSnapshotHour : f[h] \in HourSnapshots(h)
       /\ db = [EmptyDb EXCEPT !.city_snapshots = Concat(f, 0)]
  /\ call = [fn |-> "updateDailyAggregate", pc |-> "select", cityId |-> 1,
             date |-> 0, snapshots |-> <<>>]
  /\ stats = NoStats
  /\ clock = At(0, 0, 0)
  /\ upstream = [s \in StationIds |-> "live"]
  /\ faults = {}
  /\ runs = [q \in Sources |-> IdleRun]
  /\ agg = IdleAgg
  /\ backfill = IdleBackfill
  /\ started = NoneStarted
  /\ fetch = FetchStart
  /\ events = <<>>
  /\ cityList = <<>>
  /\ shard = ShardStart(0)
  /\ batch = BatchStart(0)
  /\ flights = <<>>
  /\ results = {}

RollupSpec == RollupInit /\ [][RollupNext]_vars

(***************************************************************************)
(* Stations whose endpoint starts to report coordinates                    *)
(***************************************************************************)
\* the upstream adds data.city.geo to the answers of a station
Locate ==
  /\ \E s \in StationIds :
       /\ upstream[s] \in UnlocatedBehaviours
       /\ upstream' = [upstream EXCEPT ![s] = "live"]
  /\ UNCHANGED <<clock, faults, db, runs, agg, backfill, started, notPipe>>

\* manual ingestion runs, one after the other, while endpoints start to
\* report coordinates and time passes
LocateNext ==
  \/ Quiet /\ StartRun("manual")
  \/ CreateLog("manual")
  \/ EnsureCitySelect("manual")
  \/ EnsureCityInsert("manual")
  \/ FetchStations("manual")
  \/ EnsureStationSelect("manual")
  \/ EnsureStationInsert("manual")
  \/ InsertReading("manual")
  \/ InsertSnapshot("manual")
  \/ DailySelect("manual")
  \/ DailyInsert("manual")
  \/ UpdateLog("manual")
  \/ Locate
  \/ Advance

\* an empty store; every endpoint answers with or without coordinates
LocateInit ==
  /\ clock = At(0, 0, 0)
  /\ upstream \in [StationIds -> {"live"} \cup UnlocatedBehaviours]
  /\ faults = {}
  /\ db = EmptyDb
  /\ call = NoCall
  /\ stats = NoStats
  /\ runs = [q \in Sources |-> IdleRun]
  /\ agg = IdleAgg
  /\ backfill = IdleBackfill
  /\ started = NoneStarted
  /\ fetch = FetchStart
  /\ events = <<>>
  /\ cityList = <<>>
  /\ shard = ShardStart(0)
  /\ batch = BatchStart(0)
  /\ flights = <<>>
  /\ results = {}

LocateSpec == LocateInit /\ [][LocateNext]_vars

(***************************************************************************)
(* The ingestion worker's GET /trigger: fetch, pathname /trigger           *)
(***************************************************************************)
\* env.TRIGGER_SECRET, a configured secret
TRIGGER_SECRET == "s3cret"

\* an Authorization header is its scheme and what follows the blank; get()
\* of a header that was not sent is null, here the empty tuple
AuthHeaders ==
  {<<>>, <<"Bearer", TRIGGER_SECRET>>, <<"Bearer", "guess">>, <<"Bearer", "">>,
   <<"bearer", TRIGGER_SECRET>>, <<"Basic", TRIGGER_SECRET>>}

\* a check of the scheme alone
Authorized_anyBearer(authHeader) == authHeader # <<>> /\ authHeader[1] = "Bearer"

\* !(authHeader !== `Bearer ${env.TRIGGER_SECRET}`)
Authorized(authHeader) == authHeader = <<"Bearer", TRIGGER_SECRET>>

\* a request for /trigger arrives: 401, or ingestAllCities(env, 'manual')
\* is called
TriggerRequest ==
  /\ Quiet
  /\ call.pc # "running"
  /\ \E authHeader \in AuthHeaders :
       IF ~Authorized(authHeader)
       THEN /\ call' = [fn |-> "fetch", pc |-> "responded", header |-> authHeader,
                        status |-> 401]
            /\ UNCHANGED <<runs, started>>
       ELSE /\ started.runs < MaxRuns
            /\ call' = [fn |-> "fetch", pc |-> "running", header |-> authHeader,
                        status |-> 0]
            /\ runs' = [runs EXCEPT !["manual"] =
                 [IdleRun EXCEPT !.pc = "createLog", !.source = "manual",
                                 !.timestamp = clock,
                                 !.hourTimestamp = truncateToHour(clock)]]
            /\ started' = [started EXCEPT !.runs = @ + 1]
  /\ UNCHANGED <<clock, upstream, faults, db, agg, backfill,
                 fetchVars, shardVars, batchVars, statsVars>>

\* ingestAllCities has returned or thrown: 200 with the results, or 500
TriggerRespond ==
  /\ call.pc = "running"
  /\ runs["manual"].pc \in {"done", "failed"}
  /\ call' = [call EXCEPT !.pc = "responded",
                          !.status = IF runs["manual"].pc = "done" THEN 200 ELSE 500]
  /\ UNCHANGED notCall

TriggerNext ==
  \/ TriggerRequest
  \/ CreateLog("manual")
  \/ EnsureCitySelect("manual")
  \/ EnsureCityInsert("manual")
  \/ FetchStations("manual")
  \/ EnsureStationSelect("manual")
  \/ EnsureStationInsert("manual")
  \/ InsertReading("manual")
  \/ InsertSnapshot("manual")
  \/ DailySelect("manual")
  \/ DailyInsert("manual")
  \/ UpdateLog("manual")
  \/ TriggerRespond
  \/ Advance

\* no request yet, at the start of day 0
TriggerInit ==
  /\ clock = At(0, 0, 0)
  /\ upstream \in Scenarios
  /\ faults = {}
  /\ db = EmptyDb
  /\ call = NoCall
  /\ stats = NoStats
  /\ runs = [q \in Sources |-> IdleRun]
  /\ agg = IdleAgg
  /\ backfill = IdleBackfill
  /\ started = NoneStarted
  /\ fetch = FetchStart
  /\ events = <<>>
  /\ cityList = <<>>
  /\ shard = ShardStart(0)
  /\ batch = BatchStart(0)
  /\ flights = <<>>
  /\ results = {}

TriggerSpec == TriggerInit /\ [][TriggerNext]_vars

(***************************************************************************)
(* The OpenAQ backfill beside the hourly ingestion: several days of        *)
(* sensors, before and after a manual run                                  *)
(***************************************************************************)
\* for (const day of dailyData): the next day, in range, of a sensor mapped
\* to a city of the store, up to MaxSensorDays of them
NextSensorDay(cityId, date, day) ==
  /\ backfill.pc = "idle"
  /\ started.backfills < MaxSensorDays
  /\ Invocations < MaxInvocations
  /\ FirstWhere(db.cities, "id", cityId) # 0
  /\ backfill' = [pc |-> "insert", city_id |-> cityId, date |-> date, day |-> day]
  /\ started' = [started EXCEPT !.backfills = @ + 1]
  /\ UNCHANGED <<clock, upstream, faults, db, runs, agg, notPipe>>

OpenaqNext ==
  \/ /\ Quiet
     /\ started.runs = 0
     /\ StartRun("manual")
  \/ CreateLog("manual")
  \/ EnsureCitySelect("manual")
  \/ EnsureCityInsert("manual")
  \/ FetchStations("manual")
  \/ EnsureStationSelect("manual")
  \/ EnsureStationInsert("manual")
  \/ InsertReading("manual")
  \/ InsertSnapshot("manual")
  \/ DailySelect("manual")
  \/ DailyInsert("manual")
  \/ UpdateLog("manual")
  \/ \E cityId \in 1..Len(CITIES), date \in 0..MaxDay, day \in SensorDays :
       Quiet /\ NextSensorDay(cityId, date, day)
  \/ BackfillInsert
  \/ Advance

\* an empty store but for the seeded city, every endpoint live
OpenaqInit ==
  /\ clock = At(0, 0, 0)
  /\ upstream = [s \in StationIds |-> "live"]
  /\ faults = {}
  /\ db = EmptyDb
  /\ call = NoCall
  /\ stats = NoStats
  /\ runs = [q \in Sources |-> IdleRun]
  /\ agg = IdleAgg
  /\ backfill = IdleBackfill
  /\ started = NoneStarted
  /\ fetch = FetchStart
  /\ events = <<>>
  /\ cityList = <<>>
  /\ shard = ShardStart(0)
  /\ batch = BatchStart(0)
  /\ flights = <<>>
  /\ results = {}

OpenaqSpec == OpenaqInit /\ [][OpenaqNext]_vars

(***************************************************************************)
(* The aggregator's cron beside the writers of the city-day rows           *)
(***************************************************************************)
\* scheduled: computeNationalAggregates(env.DB), the date being today's
CronAggregate ==
  /\ agg.pc = "idle"
  /\ agg' = [pc |-> "select", date |-> DateOf(clock), cities |-> <<>>]
  /\ UNCHANGED <<clock, upstream, faults, db, runs, backfill, started, notPipe>>

\* the INSERT of the aggregator has settled
AggSettled ==
  /\ agg.pc = "insert"
  /\ agg' = IdleAgg

\* a manual ingestion run and a day of the backfill, today's or an earlier
\* one, while the cron of the aggregator fires and time passes
CatchUpNext ==
  \/ /\ started.runs = 0
     /\ StartRun("manual")
  \/ CreateLog("manual")
  \/ EnsureCitySelect("manual")
  \/ EnsureCityInsert("manual")
  \/ FetchStations("manual")
  \/ EnsureStationSelect("manual")
  \/ EnsureStationInsert("manual")
  \/ InsertReading("manual")
  \/ InsertSnapshot("manual")
  \/ DailySelect("manual")
  \/ DailyInsert("manual")
  \/ UpdateLog("manual")
  \/ \E cityId \in 1..Len(CITIES), date \in 0..MaxDay, day \in SensorDays :
       /\ date <= DateOf(clock)
       /\ BackfillDay(cityId, date, day)
  \/ BackfillInsert
  \/ CronAggregate
  \/ AggSelect
  \/ AggInsert
  \/ Advance

\* an empty store but for the seeded city, every endpoint live
CatchUpInit ==
  /\ clock = At(0, 0, 0)
  /\ upstream = [s \in StationIds |-> "live"]
  /\ faults = {}
  /\ db = EmptyDb
  /\ call = NoCall
  /\ stats = NoStats
  /\ runs = [q \in Sources |-> IdleRun]
  /\ agg = IdleAgg
  /\ backfill = IdleBackfill
  /\ started = NoneStarted
  /\ fetch = FetchStart
  /\ events = <<>>
  /\ cityList = <<>>
  /\ shard = ShardStart(0)
  /\ batch = BatchStart(0)
  /\ flights = <<>>
  /\ results = {}

\* the cron of the aggregator keeps firing, and its statements return
CatchUpSpec ==
  /\ CatchUpInit
  /\ [][CatchUpNext]_vars
  /\ WF_vars(CronAggregate)
  /\ WF_vars(AggSelect)
  /\ WF_agg(AggSettled)
StatsSpec == StatsInit /\ [][StatsNext]_vars
OverlapSpec == ConcurrentInit /\ [][OverlapNext]_vars
ConcurrentSpec == ConcurrentInit /\ [][ConcurrentNext]_vars
FaultSpec == FaultInit /\ [][FaultNext]_vars
FetchSpec == FetchInit /\ [][FetchNext]_vars
FetchFair == FetchSpec /\ WF_vars(FetchNext)
ShardSpec == ShardInit /\ [][ShardNext]_vars
BatchSpec == BatchInit /\ [][BatchNext]_vars

(***************************************************************************)
(* Claims about the fetch client                                           *)
(***************************************************************************)
RequestsAt(evs) == {i \in 1..Len(evs) : evs[i].ev = "request"}
SleepsAt(evs) == {i \in 1..Len(evs) : evs[i].ev = "sleep"}

\* C3: whatever the upstream answers, one station fetch issues at most
\* 1 + maxRetries = 4 requests, and it always comes to return, with a payload
\* or with the failure value null, never by throwing.
C3_BoundedRetry ==
  /\ [](Cardinality(RequestsAt(events)) <= 1 + maxRetries)
  /\ [](fetch.pc = "done" => fetch.result \in {"data", "null"})
  /\ <>(fetch.pc = "done")

\* a fetch that used all four requests and returned the failure value
C3_Witness ==
  /\ fetch.pc = "done"
  /\ Cardinality(RequestsAt(events)) = 1 + maxRetries
  /\ fetch.result = "null"
  /\ \E i \in RequestsAt(events) : events[i].what = "neterr"

\* the wait a 429 names: the header's seconds, 60 s when there is no header
NamedWaitMs(h) ==
  IF h.kind = "digits" THEN h.v * 1000 ELSE defaultRetryAfterS * 1000

\* C4: after a 429 the fetch sleeps the wait the response names (60 s by
\* default), and the next request follows that wait directly: no backoff
\* sleep lies between a 429 and the retry after it.
C4_RateLimitWaitOnly ==
  \A i \in RequestsAt(events) :
    events[i].what = "s429" =>
      /\ i + 1 <= Len(events) =>
            /\ events[i + 1] = Sleep("ratelimit", events[i + 1].ms)
            /\ events[i].header.kind # "text" =>
                 events[i + 1].ms = NamedWaitMs(events[i].header)
      /\ i + 2 <= Len(events) => events[i + 2].ev = "request"

\* C5: a 4xx other than 429 ends the fetch at once with the failure value:
\* it is the last event of the fetch, no request and no sleep follows it.
C5_ClientErrorTerminal ==
  \A i \in RequestsAt(events) :
    events[i].what = "s4xx" =>
      /\ i = Len(events)
      /\ fetch.pc = "done"
      /\ fetch.result = "null"

\* a 4xx answered to a retry, after a server error
C5_Witness ==
  /\ Len(events) >= 3
  /\ events[1].what = "s5xx"
  /\ events[Len(events)].what = "s4xx"
  /\ fetch.pc = "done"

\* C7: every sleep of the fetch phase is bounded by the configured caps: no
\* sleep, backoff or rate-limit, lasts longer than maxDelayMs, whatever
\* Retry-After the upstream names.
C7_SleepsBounded ==
  \A i \in SleepsAt(events) : events[i].ms <= maxDelayMs

(***************************************************************************)
(* Claims about the batch scheduler                                        *)
(***************************************************************************)
\* a station fetch has started and has not returned yet
InFlight(s) == flights[s].pc \in {"request", "backoff", "ratelimited"}

\* the number of the batch station s belongs to
WindowOf(s) == (s - 1) \div maxConcurrent

\* C8: at most maxConcurrent = 5 station fetches are in flight at any moment,
\* and no fetch of a later batch has started while a fetch of an earlier
\* batch, with its retries and sleeps, has not completed.
C8_BoundedConcurrency ==
  /\ Cardinality({s \in DOMAIN flights : InFlight(s)}) <= maxConcurrent
  /\ \A s, t \in DOMAIN flights :
       WindowOf(s) < WindowOf(t) /\ flights[t].pc # "notstarted" =>
         flights[s].pc = "settled"

\* the second batch is in a backoff sleep; of the first batch, which is
\* complete, one station failed and one succeeded
C8_Witness ==
  /\ batch.n > maxConcurrent
  /\ flights[maxConcurrent + 1].pc = "backoff"
  /\ \A s \in 1..maxConcurrent : flights[s].pc = "settled"
  /\ 1 \in results
  /\ 2 \notin results

\* five fetches are in flight at once, one of them in its rate-limit sleep
C8_FullWindow ==
  /\ Cardinality({s \in DOMAIN flights : InFlight(s)}) = maxConcurrent
  /\ \E s \in DOMAIN flights : flights[s].pc = "ratelimited"

(***************************************************************************)
(* Claims about the shard selector                                         *)
(***************************************************************************)

\* the least k with 2k >= n
CeilHalf(n) == CHOOSE k \in 0..n : 2 * k >= n /\ (k = 0 \/ 2 * (k - 1) < n)

Stored(d) ==
  [readings |-> Range(d.readings),
   city_snapshots |-> Range(d.city_snapshots),
   daily_aggregates |-> Range(d.daily_aggregates),
   national_daily_aggregates |-> Range(d.national_daily_aggregates)]

\* C1: once the pipeline has run for an hour (a full ingestion run and then
\* the national aggregation), every step of a second pass within the same
\* hour, over the same station payloads, leaves the readings, the snapshots,
\* the daily aggregates and the national aggregates as the first pass left
\* them: no row is added and no value changes.
C1_IdempotentRerun ==
  [][started.runs = 2 => Stored(db') = Stored(db)]_vars

\* no two rows of the table agree on all the columns cols
UniqueOn(table, cols) ==
  \A i, j \in 1..Len(table) :
    (\A c \in cols : table[i][c] = table[j][c]) => i = j

\* the table holds a row with the key of row
KeyStored(table, row, cols) ==
  \E i \in 1..Len(table) : \A c \in cols : table[i][c] = row[c]

\* the write of row has replaced the row of its key, or added the row when
\* the key was not stored
Overwrites(old, new, row, cols) ==
  /\ row \in Range(new)
  /\ Len(new) = Len(old) + (IF KeyStored(old, row, cols) THEN 0 ELSE 1)

\* the write of row has left the table alone when the key was stored, and
\* added the row when it was not
Ignores(old, new, row, cols) ==
  IF KeyStored(old, row, cols)
  THEN new = old
  ELSE row \in Range(new) /\ Len(new) = Len(old) + 1

KeysUnique ==
  /\ UniqueOn(db.readings, ReadingsKey)
  /\ UniqueOn(db.city_snapshots, SnapshotsKey)
  /\ UniqueOn(db.daily_aggregates, DailyKey)
  /\ UniqueOn(db.national_daily_aggregates, NationalKey)

\* the step is the write of the run of source q at the position pc
Writes(q, pc) == runs[q].pc = pc /\ runs'[q] # runs[q]

\* every write of the ingestion run and of the national aggregator overwrites
IngestionOverwrites ==
  /\ \A q \in Sources :
       /\ Writes(q, "insertReading") =>
            Overwrites(db.readings, db'.readings,
                       ReadingRow(runs[q].stationId,
                                  runs[q].stationDataMap[City(runs[q]).stations[runs[q].si]],
                                  runs[q].timestamp),
                       ReadingsKey)
       /\ Writes(q, "snapshot") =>
            Overwrites(db.city_snapshots, db'.city_snapshots,
                       SnapshotRow(runs[q].cityId, runs[q].readings, runs[q].hourTimestamp,
                                   Len(City(runs[q]).stations)),
                       SnapshotsKey)
       /\ Writes(q, "dailyInsert") =>
            Overwrites(db.daily_aggregates, db'.daily_aggregates,
                       DailyRow(runs[q].cityId, DateOf(runs[q].hourTimestamp),
                                runs[q].snapshots),
                       DailyKey)
  /\ (agg.pc = "insert" /\ agg' # agg) =>
       Overwrites(db.national_daily_aggregates, db'.national_daily_aggregates,
                  NationalRow(agg.date, agg.cities), NationalKey)

DownStations(c) == {s \in Range(c.stations) : upstream[s] = "down"}

\* the city of the configuration with the slug
CityOf(slug) == CHOOSE c \in Range(CITIES) : c.slug = slug

\* a reading of station s is stored
HasReading(s) ==
  \E i \in 1..Len(db.stations), j \in 1..Len(db.readings) :
    /\ db.stations[i].waqi_id = s
    /\ db.readings[j].station_id = db.stations[i].id

\* C6: the fetch of a station whose every attempt ends in a 5xx or a network
\* error makes 1 + maxRetries = 4 requests and returns null; the station is
\* absent from the batch's result map; the city still succeeds with a reading
\* stored for each of its other stations; and the run completes with every
\* selected city processed.
C6_TransientExhaustionNotFatal ==
  \A q \in Sources :
    LET r == runs[q] IN
    /\ \A s \in DOMAIN r.attempts :
         upstream[s] = "down" =>
           /\ r.attempts[s] = 1 + maxRetries
           /\ FetchOf(upstream, s).result = "null"
           /\ s \notin DOMAIN r.stationDataMap
    /\ \A slug \in DOMAIN r.results :
         /\ r.results[slug].success
         /\ r.results[slug].validStations =
              Cardinality(Range(CityOf(slug).stations) \ DownStations(CityOf(slug)))
         /\ \A s \in Range(CityOf(slug).stations) \ DownStations(CityOf(slug)) :
              HasReading(s)
    /\ r.pc = "done" =>
         /\ r.citiesProcessed = Len(r.citiesToProcess)
         /\ \E i \in 1..Len(db.ingestion_logs) :
              /\ db.ingestion_logs[i].id = r.logId
              /\ db.ingestion_logs[i].status = "completed"
              /\ db.ingestion_logs[i].cities_processed = Len(r.citiesToProcess)

\* a run is over in which one of Delhi's two stations was down: the city
\* succeeded with the one reading of the other station
C6_Witness ==
  \E q \in Sources :
    /\ runs[q].pc = "done"
    /\ DownStations(CityOf("delhi")) # {}
    /\ "delhi" \in DOMAIN runs[q].results
    /\ runs[q].results["delhi"].success
    /\ runs[q].results["delhi"].validStations = 1

(***************************************************************************)
(* Claims about a run under failure                                        *)
(***************************************************************************)
\* the endpoint of station s returns a body that the station loop takes
Delivers(s) == upstream[s] \in {"live", "notime", "nopm25"}

\* the statements of the store that are run for one station
StationOps == {"selectStation", "insertStation", "insertReading"}

\* C11: when every failure of a run is confined to a station (its fetch fails,
\* its payload is malformed or not ok, or a statement of the store run to
\* register the station or to write its reading rejects), each city the run
\* has gone through succeeded, and each other station of the city whose
\* endpoint delivered has its reading stored.
C11_StationIsolation ==
  \A q \in Sources : \A slug \in DOMAIN runs[q].results :
    (\A f \in faults : f.op \in StationOps) =>
      /\ runs[q].results[slug].success
      /\ \A s \in Range(CityOf(slug).stations) :
           (Delivers(s) /\ \A f \in faults : f.on # s) => HasReading(s)

\* the slugs of the first n cities of the list cs
Slugs(cs, n) == {cs[i].slug : i \in 1..n}

\* the city loop of the run is over
LoopOver(r) == r.pc \in {"updateLog", "done", "failed"}

\* the number of cities the run has gone through
CitiesAttempted(r) ==
  IF LoopOver(r) THEN Len(r.citiesToProcess)
  ELSE IF r.ci > 0 THEN r.ci - 1 ELSE 0

\* C12: whatever fails, the cities a run has results for are at every moment
\* the cities it has gone through, a prefix of its selection in the configured
\* order; once the loop is over the result map has an entry for each selected
\* city and for no other.
C12_CityIsolation ==
  \A q \in Sources :
    LET r == runs[q] IN
    r.pc # "killed" =>
      /\ DOMAIN r.results = Slugs(r.citiesToProcess, CitiesAttempted(r))
      /\ LoopOver(r) =>
           /\ DOMAIN r.results = Slugs(r.citiesToProcess, Len(r.citiesToProcess))
           /\ \E lo \in 0..Len(CITIES), hi \in 0..Len(CITIES) :
                r.citiesToProcess = Slice(CITIES, lo, hi)

\* a manual run has returned: its first city failed, its second succeeded
C12_Witness ==
  LET r == runs["manual"] IN
  /\ r.pc = "done"
  /\ DOMAIN r.results = {"delhi", "agra"}
  /\ ~r.results["delhi"].success
  /\ r.results["agra"].success

\* the log rows of the run, by its logId
LogRowsOf(r) ==
  {i \in 1..Len(db.ingestion_logs) : db.ingestion_logs[i].id = r.logId}

\* a step in which run q creates its log row, in status running
CreatesLog(q) ==
  /\ runs[q].pc = "createLog"
  /\ Len(db'.ingestion_logs) = Len(db.ingestion_logs) + 1
  /\ SubSeq(db'.ingestion_logs, 1, Len(db.ingestion_logs)) = db.ingestion_logs
  /\ LET row == db'.ingestion_logs[Len(db'.ingestion_logs)]
     IN  /\ row.status = "running"
         /\ row.started_at = runs[q].timestamp
         /\ row.source = q
         /\ row.id = runs'[q].logId

\* a step in which run q, its last city behind it, completes its log row
CompletesLog(q) ==
  LET r == runs[q] IN
  /\ r.pc = "updateLog"
  /\ runs'[q].pc = "done"
  /\ DOMAIN r.results = Slugs(r.citiesToProcess, Len(r.citiesToProcess))
  /\ Len(db'.ingestion_logs) = Len(db.ingestion_logs)
  /\ \A i \in 1..Len(db.ingestion_logs) :
       IF db.ingestion_logs[i].id = r.logId
       THEN /\ db.ingestion_logs[i].status = "running"
            /\ db'.ingestion_logs[i] =
                 [db.ingestion_logs[i] EXCEPT
                    !.status = "completed",
                    !.completed_at = clock,
                    !.cities_processed = r.citiesProcessed,
                    !.records_processed = r.totalRecords]
       ELSE db'.ingestion_logs[i] = db.ingestion_logs[i]

\* C13: the ingestion log changes in two steps of a run only: the step that
\* creates the run's row in status running, and the one step after the last
\* city that sets completion time, counts and status completed. In between,
\* and for ever in a run that was stopped or ended by an error before the
\* update, the row stays running with its counts at zero; once the run has
\* returned the row is completed and changes no more.
C13_ProvenanceTwice ==
  /\ [][db'.ingestion_logs # db.ingestion_logs =>
          \E q \in Sources : CreatesLog(q) \/ CompletesLog(q)]_vars
  /\ [](\A q \in Sources :
          LET r == runs[q] IN
          r.logId # 0 =>
            /\ Cardinality(LogRowsOf(r)) = 1
            /\ \A i \in LogRowsOf(r) :
                 /\ r.pc # "done" =>
                      /\ db.ingestion_logs[i].status = "running"
                      /\ db.ingestion_logs[i].cities_processed = 0
                      /\ db.ingestion_logs[i].records_processed = 0
                 /\ r.pc = "done" =>
                      /\ db.ingestion_logs[i].status = "completed"
                      /\ db.ingestion_logs[i].cities_processed = r.citiesProcessed
                      /\ db.ingestion_logs[i].records_processed = r.totalRecords)

\* a manual run has returned after both cities, its log row completed with
\* two cities and three records
C13_Witness ==
  LET r == runs["manual"] IN
  /\ r.pc = "done"
  /\ r.logId # 0
  /\ \E i \in LogRowsOf(r) :
       /\ db.ingestion_logs[i].status = "completed"
       /\ db.ingestion_logs[i].cities_processed = 2
       /\ db.ingestion_logs[i].records_processed = 3

\* the id under which the city of the slug is stored, 0 when it is not
CityIdOf(slug) ==
  LET i == FirstWhere(db.cities, "slug", slug)
  IN  IF i = 0 THEN 0 ELSE db.cities[i].id

\* a snapshot of the city of the slug is stored for the hour
HasSnapshot(slug, hour) ==
  \E i \in 1..Len(db.city_snapshots) :
    /\ db.city_snapshots[i].city_id = CityIdOf(slug)
    /\ db.city_snapshots[i].recorded_at = hour

\* a daily aggregate of the city of the slug is stored for the date
HasDaily(slug, date) ==
  \E i \in 1..Len(db.daily_aggregates) :
    /\ db.daily_aggregates[i].city_id = CityIdOf(slug)
    /\ db.daily_aggregates[i].date = date

\* the endpoint of station s delivers a PM2.5 value
DeliversPm25(s) == upstream[s] \in {"live", "notime"}

\* the stations of the cities in the list cs
StationsOf(cs) == UNION {Range(cs[i].stations) : i \in 1..Len(cs)}

\* C14: when the creation of the log row fails, the run never attempts the
\* update and no log row exists; it still goes through every selected city
\* and returns: each city succeeded, each station that delivered has its
\* reading stored, each city with a PM2.5 value has its snapshot and its daily
\* aggregate, and the counts are those of a run whose log was created.
C14_LogFailureHarmless ==
  \A q \in Sources :
    LET r == runs[q] IN
    Fails("createLog", 0) =>
      /\ r.pc \notin {"updateLog", "failed"}
      /\ r.logId = 0
      /\ db.ingestion_logs = <<>>
      /\ r.pc = "done" =>
           /\ DOMAIN r.results = Slugs(r.citiesToProcess, Len(r.citiesToProcess))
           /\ \A slug \in DOMAIN r.results : r.results[slug].success
           /\ r.citiesProcessed = Len(r.citiesToProcess)
           /\ r.totalRecords =
                Cardinality({s \in StationsOf(r.citiesToProcess) : Delivers(s)})
           /\ \A s \in StationsOf(r.citiesToProcess) : Delivers(s) <=> HasReading(s)
           /\ \A i \in 1..Len(r.citiesToProcess) :
                LET c == r.citiesToProcess[i]
                    any == \E s \in Range(c.stations) : DeliversPm25(s)
                IN  /\ any <=> HasSnapshot(c.slug, r.hourTimestamp)
                    /\ any <=> HasDaily(c.slug, DateOf(r.hourTimestamp))

\* a manual run whose log could not be created has returned with both cities
\* succeeded and their three readings stored
C14_Witness ==
  LET r == runs["manual"] IN
  /\ Fails("createLog", 0)
  /\ r.pc = "done"
  /\ DOMAIN r.results = {"delhi", "agra"}
  /\ \A slug \in DOMAIN r.results : r.results[slug].success
  /\ Len(db.readings) = 3
  /\ db.ingestion_logs = <<>>

(***************************************************************************)
(* Claims about concurrent runs                                            *)
(***************************************************************************)
\* C15: when the cron's run and a manual run go through the same hour at the
\* same time over the same payloads, whose only failures are those of the
\* endpoints (which fail no city), no city of either run fails, under any
\* interleaving of their statements.
C15_ConcurrentRunsSafe ==
  \A q \in Sources : \A slug \in DOMAIN runs[q].results :
    runs[q].results[slug].success

(***************************************************************************)
(* Claims about the aggregates                                             *)
(***************************************************************************)
\* the number of readings in the list that carry a PM2.5 value
CountPm25(readings) ==
  Cardinality({i \in 1..Len(readings) : ~IsNull(readings[i].pm25)})

\* a step in which run q writes the snapshot of its city
WritesSnapshot(q) ==
  /\ runs[q].pc = "snapshot"
  /\ db'.city_snapshots # db.city_snapshots

\* the snapshot rows of the run's city and hour
SnapshotsOf(table, r) ==
  {i \in 1..Len(table) :
     table[i].city_id = r.cityId /\ table[i].recorded_at = r.hourTimestamp}

\* C16: the snapshot a run writes for a city carries as totalStations the
\* number of stations configured for the city and as validStations the number
\* of the readings the run collected for the city that have a PM2.5 value,
\* which is the number of the city's stations that delivered one and whose
\* reading was written; in every stored snapshot validStations is at least 1
\* and at most totalStations.
C16_SnapshotCounts ==
  /\ [][\A q \in Sources :
          WritesSnapshot(q) =>
            LET r == runs[q] IN
            \E i \in SnapshotsOf(db'.city_snapshots, r) :
              LET row == db'.city_snapshots[i] IN
              /\ Cardinality(SnapshotsOf(db'.city_snapshots, r)) = 1
              /\ row.total_stations = Len(City(r).stations)
              /\ row.valid_stations = CountPm25(r.readings)
              /\ row.valid_stations =
                   Cardinality({s \in Range(City(r).stations) :
                                  DeliversPm25(s) /\ ~Fails("insertReading", s)})]_vars
  /\ [](\A i \in 1..Len(db.city_snapshots) :
          /\ db.city_snapshots[i].valid_stations >= 1
          /\ db.city_snapshots[i].valid_stations <= db.city_snapshots[i].total_stations)

\* Delhi's snapshot is stored with one valid station of two: the other
\* station delivered a reading without PM2.5
C16_Witness ==
  /\ \E s \in Range(CityOf("delhi").stations) : upstream[s] = "nopm25"
  /\ \E q \in Sources :
       /\ "delhi" \in DOMAIN runs[q].results
       /\ runs[q].results["delhi"].validStations = 2
  /\ \E i \in 1..Len(db.city_snapshots) :
       /\ db.city_snapshots[i].city_id = CityIdOf("delhi")
       /\ db.city_snapshots[i].valid_stations = 1
       /\ db.city_snapshots[i].total_stations = 2

\* the daily aggregate was written by updateDailyAggregate: the backfill
\* binds no peak hour
ByIngestion(row) == ~IsNull(row.peak_hour)

\* the number of snapshot rows of the city and the date
SnapshotCount(cityId, date) ==
  Cardinality({i \in 1..Len(db.city_snapshots) :
                 /\ db.city_snapshots[i].city_id = cityId
                 /\ DateOf(db.city_snapshots[i].recorded_at) = date})

\* C17: whenever no invocation is under way, every stored daily aggregate has
\* hours_with_data between 0 and 24, and a row written by an ingestion run has
\* the number of snapshot rows stored for its city and date.
C17_HoursWithData ==
  Quiet =>
    \A i \in 1..Len(db.daily_aggregates) :
      LET row == db.daily_aggregates[i] IN
      /\ row.hours_with_data >= 0
      /\ row.hours_with_data <= HoursPerDay
      /\ ByIngestion(row) =>
           row.hours_with_data = SnapshotCount(row.city_id, row.date)

\* the cities that have a daily aggregate with an average for the date
CitiesWithDaily(d, date) ==
  {d.daily_aggregates[i].city_id : i \in
     {j \in 1..Len(d.daily_aggregates) :
        /\ d.daily_aggregates[j].date = date
        /\ ~IsNull(d.daily_aggregates[j].avg_pm25)}}

ValidStations(c) ==
  {s \in Range(c.stations) : DeliversPm25(s) /\ ~Fails("insertReading", s)}

\* no statement outside the writes of readings rejects for the city
NoCityFault(c) ==
  \A f \in faults :
    \/ f.op \in {"createLog", "updateLog"}
    \/ f.op \in {"selectCity", "insertCity", "insertSnapshot", "selectDaily",
                 "insertDaily"} /\ f.on # CityNo(c.slug)
    \/ f.op \in {"selectStation", "insertStation"} /\ f.on \notin Range(c.stations)
    \/ f.op = "insertReading"

\* C19: the table of snapshots changes only in the INSERT of
\* computeCitySnapshot, which a run reaches only with a reading that has a
\* PM2.5 value; a run whose station loop ends without such a reading goes
\* straight on to the day aggregate, from there reports the city as success
\* and goes on with the next city or the end of the run; and a city gone
\* through without a PM2.5 value, nothing else failing, is reported as success
\* without an average and has no snapshot stored for the hour.
C19_SnapshotSkip ==
  /\ [][db'.city_snapshots # db.city_snapshots =>
          \E q \in Sources :
            /\ runs[q].pc = "snapshot"
            /\ validReadings(runs[q].readings) # <<>>]_vars
  /\ [][\A q \in Sources :
          LET r == runs[q]
              r2 == runs'[q]
          IN  /\ (/\ r.pc \in {"fetch", "insertReading"}
                  /\ r2 # r
                  /\ r2.ci = r.ci
                  /\ r2.pc \notin {"ensureStation", "killed"}
                  /\ validReadings(r2.readings) = <<>>)
                 => r2.pc = "dailySelect"
              /\ (/\ r.pc = "dailySelect"
                  /\ r2 # r
                  /\ r2.pc # "killed"
                  /\ validReadings(r.readings) = <<>>
                  /\ ~Fails("selectDaily", CityNo(City(r).slug)))
                 => /\ City(r).slug \in DOMAIN r2.results
                    /\ r2.results[City(r).slug].success
                    /\ r2.pc \in {"dailyInsert", "ensureCity", "updateLog", "done"}]_vars
  /\ [](\A q \in Sources : \A slug \in DOMAIN runs[q].results :
          (ValidStations(CityOf(slug)) = {} /\ NoCityFault(CityOf(slug))) =>
            /\ runs[q].results[slug].success
            /\ IsNull(runs[q].results[slug].avgPm25)
            /\ ~HasSnapshot(slug, runs[q].hourTimestamp))

\* a manual run has returned: Delhi, neither of whose stations gave a stored
\* PM2.5 value, succeeded without a snapshot, and Agra after it has its
\* snapshot
C19_Witness ==
  LET r == runs["manual"] IN
  /\ r.pc = "done"
  /\ ValidStations(CityOf("delhi")) = {}
  /\ r.results["delhi"].success
  /\ ~HasSnapshot("delhi", r.hourTimestamp)
  /\ r.results["agra"].success
  /\ HasSnapshot("agra", r.hourTimestamp)

(***************************************************************************)
(* Claims about the statistics of a city-hour                              *)
(***************************************************************************)
\* the positions of the readings argument that carry a PM2.5 value
ValidAt == {i \in 1..Len(stats.readings) : ~IsNull(stats.readings[i].pm25)}

\* the number of valid values that satisfy the test against y
CountBelow(y) == Cardinality({i \in ValidAt : RLess(stats.readings[i].pm25, y)})
CountUpTo(y) == Cardinality({i \in ValidAt : RLeq(stats.readings[i].pm25, y)})

\* y is the k-th smallest of the valid values, counted with repetition
IsKthSmallest(y, k) ==
  /\ \E i \in ValidAt : stats.readings[i].pm25 = y
  /\ CountBelow(y) <= k - 1
  /\ CountUpTo(y) >= k

RECURSIVE SumAt(_)
\* the sum of the valid values at the positions in idx
SumAt(idx) ==
  IF idx = {} THEN Whole(0)
  ELSE LET i == CHOOSE j \in idx : TRUE
       IN  RAdd(stats.readings[i].pm25, SumAt(idx \ {i}))

\* the valid values are those of the list vs in some order
ValuesAre(vs) ==
  /\ Cardinality(ValidAt) = Len(vs)
  /\ \A k \in 1..Len(vs) :
       Cardinality({i \in ValidAt : stats.readings[i].pm25 = Whole(vs[k])}) =
         Cardinality({j \in 1..Len(vs) : vs[j] = vs[k]})

\* C20: for every list of readings with at least one PM2.5 value, in whatever
\* order, the snapshot's average times the number of valid values is their
\* sum, its minimum and maximum are values of the list that none falls below
\* or exceeds, and its median is the middle value by rank for an odd count and
\* half the sum of the two middle values by rank for an even count; the values
\* 10, 20, 30, 40 give 25 and the values 10, 20, 30 give 20 in any order.
C20_CityHourStatistics ==
  stats.pc = "done" =>
    LET row == stats.snapshot
        n == Cardinality(ValidAt)
    IN  /\ n >= 1
        /\ RMul(row.avg_pm25, Whole(n)) = SumAt(ValidAt)
        /\ IsKthSmallest(row.min_pm25, 1)
        /\ IsKthSmallest(row.max_pm25, n)
        /\ IF n % 2 = 1
           THEN IsKthSmallest(row.median_pm25, (n + 1) \div 2)
           ELSE \E lo \in ValidAt, hi \in ValidAt :
                  /\ IsKthSmallest(stats.readings[lo].pm25, n \div 2)
                  /\ IsKthSmallest(stats.readings[hi].pm25, n \div 2 + 1)
                  /\ RMul(row.median_pm25, Whole(2)) =
                       RAdd(stats.readings[lo].pm25, stats.readings[hi].pm25)
        /\ ValuesAre(<<10, 20, 30, 40>>) => row.median_pm25 = Whole(25)
        /\ ValuesAre(<<10, 20, 30>>) => row.median_pm25 = Whole(20)

\* the statistics of the readings 40, 10, 30, 20 are computed: average 25,
\* minimum 10, maximum 40, median 25
C20_Witness ==
  /\ stats.pc = "done"
  /\ [i \in 1..Len(stats.readings) |-> stats.readings[i].pm25] =
       <<Whole(40), Whole(10), Whole(30), Whole(20)>>
  /\ stats.snapshot.median_pm25 = Whole(25)
  /\ stats.snapshot.avg_pm25 = Whole(25)
  /\ stats.snapshot.min_pm25 = Whole(10)
  /\ stats.snapshot.max_pm25 = Whole(40)

C22_HealthMetrics ==
  call.fn = "metrics" =>
    /\ \A w \in DOMAIN call.out :
         LET mp == call.out[w].p
             mq == call.out[w].q
         IN  /\ RLeq(call.p, Whole(5)) => mp.years_lost_per_year = Whole(0)
             /\ RLess(Whole(5), call.p) =>
                  /\ RLess(Whole(0), mp.years_lost_per_year)
                  /\ RMul(mp.years_lost_per_year, Whole(1000)) =
                       RMul(RSub(call.p, Whole(5)), Whole(98))
             /\ RMul(mp.cigarettes_equivalent, Whole(22)) = call.p
             /\ RMul(mp.who_violation_factor, Whole(5)) = call.p
             /\ RLeq(mp.cigarettes_equivalent, mq.cigarettes_equivalent)
             /\ RLeq(mp.years_lost_per_year, mq.years_lost_per_year)
             /\ RLeq(mp.who_violation_factor, mq.who_violation_factor)
    /\ \A w1 \in DOMAIN call.out, w2 \in DOMAIN call.out : call.out[w1] = call.out[w2]

\* the three workers have computed for p = 5/2 and q = 15: 0 years lost for
\* p and 0.98 for q
C22_Witness ==
  /\ call.fn = "metrics"
  /\ DOMAIN call.out = Workers
  /\ call.p = Num(5, 2)
  /\ call.q = Whole(15)
  /\ \A w \in Workers :
       /\ call.out[w].p.years_lost_per_year = Whole(0)
       /\ call.out[w].q.years_lost_per_year = Num(98, 100)

(***************************************************************************)
(* Claims about the national averages                                      *)
(***************************************************************************)
RECURSIVE SumOver(_, _)
\* the sum over the positions idx of the field of the cities of the call,
\* each weighted by its population when weighted
SumOver(idx, weighted) ==
  IF idx = {} THEN Whole(0)
  ELSE LET i == CHOOSE j \in idx : TRUE
           c == call.cities[i]
       IN  RAdd(IF weighted THEN RMul(c.avg_pm25, Whole(c.population)) ELSE c.avg_pm25,
                SumOver(idx \ {i}, weighted))

\* the total population of the cities of the call
PopulationOf(idx) ==
  LET F[k \in 0..Len(call.cities)] ==
        IF k = 0 THEN 0
        ELSE F[k - 1] + (IF k \in idx THEN call.cities[k].population ELSE 0)
  IN  F[Len(call.cities)]

\* C23: for every non-empty list of reporting cities the stored simple
\* average times the number of cities is the sum of their daily averages; the
\* stored weighted average times the total population is the sum of the
\* averages each times its population when the total population is positive,
\* and is the simple average when it is zero; the cities (avg 10, pop 2) and
\* (avg 30, pop 1) give 50/3 weighted and 20 simple.
C23_NationalAverages ==
  (call.fn = "computeNationalAggregateForDate" /\ call.pc = "done") =>
    LET idx == 1..Len(call.cities)
        pop == PopulationOf(idx)
        row == call.row
    IN  /\ RMul(row.avg_pm25, Whole(Len(call.cities))) = SumOver(idx, FALSE)
        /\ pop > 0 => RMul(row.weighted_avg_pm25, Whole(pop)) = SumOver(idx, TRUE)
        /\ pop = 0 => row.weighted_avg_pm25 = row.avg_pm25
        /\ row.total_population_covered = Whole(pop)
        /\ row.cities_reporting = Len(call.cities)
        /\ (/\ Len(call.cities) = 2
            /\ call.cities[1].avg_pm25 = Whole(10) /\ call.cities[1].population = 2
            /\ call.cities[2].avg_pm25 = Whole(30) /\ call.cities[2].population = 1)
           => /\ row.weighted_avg_pm25 = Num(50, 3)
              /\ row.avg_pm25 = Whole(20)

\* the row of the cities (avg 10, pop 2) and (avg 30, pop 1) is computed:
\* 50/3 weighted, 20 simple
C23_Witness ==
  /\ call.fn = "computeNationalAggregateForDate"
  /\ call.pc = "done"
  /\ Len(call.cities) = 2
  /\ call.cities[1].avg_pm25 = Whole(10) /\ call.cities[1].population = 2
  /\ call.cities[2].avg_pm25 = Whole(30) /\ call.cities[2].population = 1
  /\ call.row.weighted_avg_pm25 = Num(50, 3)
  /\ call.row.avg_pm25 = Whole(20)

(***************************************************************************)
(* Claims about the national backfill                                      *)
(***************************************************************************)
\* the dates of the inclusive range of the call
RangeOf(c) == {d \in Dates : c.start <= d /\ d <= c.end}

\* the attempts of the call with the outcome
AttemptsWith(c, outcome) ==
  {i \in 1..Len(c.attempts) : c.attempts[i].outcome = outcome}

\* the national rows of the date
NationalRowsOn(table, date) == {i \in 1..Len(table) : table[i].date = date}

\* C24 (skipped dates): a date of the range for which no city has a daily
\* aggregate is neither processed nor errored, and no national row exists for
\* it afterwards.
C24_EmptyDateSkipped ==
  (call.fn = "backfillNationalAggregates") =>
    \A i \in 1..Len(call.attempts) :
      LET a == call.attempts[i]
      IN  (/\ CityData(db.daily_aggregates, db.cities, a.date) = <<>>
           /\ ~Fails("selectNational", a.date))
          => /\ a.outcome = "skipped"
             /\ NationalRowsOn(db.national_daily_aggregates, a.date) = {}

\* C24: the counts of the returned result add up to the number of dates in
\* the range.
C24_CountsAddUp ==
  (call.fn = "backfillNationalAggregates" /\ call.pc = "done") =>
    call.result.processed + call.result.errors = Cardinality(RangeOf(call))

\* C25: the attempts are the dates of the range, each once, ascending from
\* the start date; every attempt that throws counts one error, every attempt
\* that stores a row counts one processed date, and the attempts go on after
\* an error; and the loop returns, having attempted the whole range.
C25_VisitsEveryDate ==
  /\ [](call.fn = "backfillNationalAggregates" =>
          /\ \A i \in 1..Len(call.attempts) : call.attempts[i].date = call.start + i - 1
          /\ Len(call.attempts) <= Cardinality(RangeOf(call))
          /\ call.errors = Cardinality(AttemptsWith(call, "error"))
          /\ call.processed = Cardinality(AttemptsWith(call, "processed"))
          /\ \A i \in 1..Len(call.attempts) :
               LET a == call.attempts[i]
               IN  a.outcome = "error" <=>
                     \/ Fails("selectNational", a.date)
                     \/ /\ CityData(db.daily_aggregates, db.cities, a.date) # <<>>
                        /\ Fails("insertNational", a.date)
          /\ call.pc = "done" =>
               /\ Len(call.attempts) = Cardinality(RangeOf(call))
               /\ call.result.errors = call.errors
               /\ call.result.processed = call.processed)
  /\ <>(call.pc = "done")

\* a backfill has returned after an error on the first date of its range and
\* a processed later date
C25_Witness ==
  /\ call.fn = "backfillNationalAggregates"
  /\ call.pc = "done"
  /\ Len(call.attempts) = MaxDate + 1
  /\ call.attempts[1].outcome = "error"
  /\ call.attempts[MaxDate + 1].outcome = "processed"
  /\ call.result = [processed |-> 1, errors |-> 2]

(***************************************************************************)
(* Claims about the validators                                             *)
(***************************************************************************)
\* C26: no stored reading carries the index value 999.
C26_NoSentinelStored ==
  \A i \in 1..Len(db.readings) : db.readings[i].aqi # Whole(AQI_BOUNDS.ERROR_CODE)

\* C26 (validators): the index validator reports the error ERROR_CODE and an
\* invalid result for the number 999 and for the string "999", and the
\* response validator for a response whose data has the number 999 as aqi.
C26_ValidatorsReject ==
  (call.pc = "done") =>
    /\ (call.fn = "validateAqiValue" /\ call.value \in {Whole(999), Digits(999)})
         => ~call.result.isValid /\ call.result.errors = <<"ERROR_CODE">>
    /\ (/\ call.fn = "validateWAQIResponse"
        /\ call.value.object /\ call.value.hasData
        /\ call.value.aqi = Whole(999))
         => ~call.result.isValid

\* C28: for a number v, infinite or not, validatePm25Value reports an error
\* and an invalid result when v < 0 or v > 1500; the warning EXTREME_VALUE
\* alone and a valid result when 999 < v <= 1500; the warning SUSPICIOUSLY_LOW
\* alone and a valid result when 0 < v < 5; and no error and no warning for
\* v = 0 and for 5 <= v <= 999.
C28_Pm25Bounds ==
  (/\ call.fn = "validatePm25Value"
   /\ call.pc = "done"
   /\ call.value.t \in {"num", "inf"}) =>
    LET v == call.value
        r == call.result
    IN  /\ (RLess(v, Whole(0)) \/ RLess(Whole(1500), v))
             <=> (r.errors # <<>>)
        /\ r.isValid <=> (r.errors = <<>>)
        /\ (RLess(Whole(999), v) /\ RLeq(v, Whole(1500)))
             => r.errors = <<>> /\ r.warnings = <<"EXTREME_VALUE">>
        /\ (RLess(Whole(0), v) /\ RLess(v, Whole(5)))
             => r.errors = <<>> /\ r.warnings = <<"SUSPICIOUSLY_LOW">>
        /\ (v = Whole(0) \/ (RLeq(Whole(5), v) /\ RLeq(v, Whole(999))))
             => r.errors = <<>> /\ r.warnings = <<>>

\* validatePm25Value has returned a warning alone for 999.5
C28_Witness ==
  /\ call.fn = "validatePm25Value"
  /\ call.pc = "done"
  /\ call.value = Num(1999, 2)
  /\ call.result = [isValid |-> TRUE, errors |-> <<>>, warnings |-> <<"EXTREME_VALUE">>]

\* the stations the report flags with an anomaly of the type
Flagged(type) ==
  {call.report.anomalies[i].stationId :
     i \in {j \in 1..Len(call.report.anomalies) : call.report.anomalies[j].type = type}}

\* C27: whatever anomalies the report flags, the snapshot counts every
\* reading with a PM2.5 value as valid, the flagged ones included, and its
\* average, minimum and maximum are those of all these values; the report's
\* valid count is the snapshot's; and every station whose PM2.5 is exactly 0
\* is flagged as a flatline and is among the stations averaged.
C27_AnomaliesAdvisory ==
  (stats.pc = "done" /\ call.fn = "generateDataQualityReport" /\ call.pc = "done") =>
    LET row == stats.snapshot
        n == Cardinality(ValidAt)
    IN  /\ row.valid_stations = n
        /\ call.report.stationsValid = n
        /\ RMul(row.avg_pm25, Whole(n)) = SumAt(ValidAt)
        /\ IsKthSmallest(row.min_pm25, 1)
        /\ IsKthSmallest(row.max_pm25, n)
        /\ Flagged("flatline") \cup Flagged("impossible") \cup Flagged("outlier")
             \subseteq {stats.readings[i].station_id : i \in ValidAt}
        /\ \A i \in ValidAt :
             stats.readings[i].pm25 = Whole(0)
               => stats.readings[i].station_id \in Flagged("flatline")

\* a snapshot of the values 0, 50, 50, 200 is computed and reported: the
\* station at 0 is a flatline and an outlier, the station at 200 a round
\* hundred and an outlier, and the average over the four stations is 75
C27_Witness ==
  /\ stats.pc = "done"
  /\ call.fn = "generateDataQualityReport"
  /\ call.pc = "done"
  /\ [i \in 1..Len(stats.readings) |-> stats.readings[i].pm25] =
       <<Whole(0), Whole(50), Whole(50), Whole(200)>>
  /\ Flagged("flatline") = {1}
  /\ Flagged("impossible") = {4}
  /\ Flagged("outlier") = {1, 4}
  /\ stats.snapshot.valid_stations = 4
  /\ stats.snapshot.avg_pm25 = Whole(75)
  /\ stats.snapshot.min_pm25 = Whole(0)

(***************************************************************************)
(* Claims about the order of the steps of a run                            *)
(***************************************************************************)
\* the positions of a run inside the try of a city
InCity ==
  {"ensureCity", "insertCity", "fetch", "ensureStation", "insertStation",
   "insertReading", "snapshot", "dailySelect", "dailyInsert"}

\* the stations of the run's city whose fetch has returned usable data and
\* that the station loop has not passed yet
StationsAhead(r) ==
  {j \in 1..Len(City(r).stations) : j > r.si /\ Usable(r, City(r).stations[j])}

\* the rows of the table are those of the sequence
RowsOf(table) == {table[i] : i \in 1..Len(table)}

\* C29: in every step of a run that the platform does not stop: a reading
\* is written only after the fetches of all stations of the city have
\* returned; the snapshot is written only
\* after the station loop has passed every station, from the readings
\* written; the day aggregate is computed from the snapshots read after the
\* snapshot step, the snapshot just written among them, and is written from
\* these; nothing is written while the city's stations are fetched; and the
\* run moves to the next city, by one, only from the day aggregate of the
\* city or from its catch, with no reading, snapshot or fetch of the city
\* left over.
C29_PerCityOrdering ==
  [][\A q \in Sources :
       LET r == runs[q]
           r2 == runs'[q]
       IN  (r2 # r /\ r.pc \in InCity /\ r2.pc # "killed") =>
             /\ db'.readings # db.readings =>
                  /\ r.pc = "insertReading"
                  /\ DOMAIN r.attempts = Range(City(r).stations)
             /\ db'.city_snapshots # db.city_snapshots =>
                  /\ r.pc = "snapshot"
                  /\ r.si = Len(City(r).stations) + 1
                  /\ StationsAhead(r) = {}
                  /\ RowsOf(r.readings) \subseteq RowsOf(db.readings)
                  /\ SnapshotRow(r.cityId, r.readings, r.hourTimestamp,
                                 Len(City(r).stations)) \in RowsOf(db'.city_snapshots)
             /\ r.pc = "snapshot" => r2.pc = "dailySelect"
             /\ r2.pc = "dailyInsert" =>
                  /\ r.pc = "dailySelect"
                  /\ r2.snapshots =
                       SnapshotsOfDay(db.city_snapshots, r.cityId, DateOf(r.hourTimestamp))
                  /\ ~IsNull(r.avgPm25) =>
                       \E i \in 1..Len(r2.snapshots) :
                         /\ r2.snapshots[i].recorded_at = r.hourTimestamp
                         /\ r2.snapshots[i].avg_pm25 = r.avgPm25
             /\ db'.daily_aggregates # db.daily_aggregates =>
                  /\ r.pc = "dailyInsert"
                  /\ DailyRow(r.cityId, DateOf(r.hourTimestamp), r.snapshots)
                       \in RowsOf(db'.daily_aggregates)
             /\ r.pc = "fetch" => db' = db
             /\ r2.pc = "fetch" => r2.readings = <<>> /\ r2.attempts = <<>>
             /\ (r2.pc \in InCity /\ r2.ci # r.ci) =>
                  /\ r2.ci = r.ci + 1
                  /\ r2.pc = "ensureCity"
                  /\ r2.readings = <<>> /\ r2.stationDataMap = <<>>
                  /\ \/ r.pc \in {"dailySelect", "dailyInsert"}
                     \/ ~r2.results[City(r).slug].success]_vars

\* a manual run has returned with both cities processed: the snapshots and
\* the day aggregates of both are stored
C29_Witness ==
  LET r == runs["manual"] IN
  /\ r.pc = "done"
  /\ r.citiesProcessed = 2
  /\ Len(db.readings) = 3
  /\ Len(db.city_snapshots) = 2
  /\ Len(db.daily_aggregates) = 2

\* C30: when the aggregator is about to read the daily aggregates of a date,
\* no ingestion run is inside its loop over the cities for an hour of that
\* date.
C30_ReadsCommittedRows ==
  agg.pc = "select" =>
    \A q \in Sources :
      ~(runs[q].pc \in InCity /\ DateOf(runs[q].hourTimestamp) = agg.date)

(***************************************************************************)
(* Claims about the delay between the windows of a batched fetch           *)
(***************************************************************************)

\* the fetches of the stations after the window that starts at i
Later(i) == {s \in DOMAIN flights : s > i + 5}

\* C31: fetchStationsBatched sleeps the delay between batches
\* ceil(n / 5) - 1 times for n >= 1 stations and never for n <= 5.  A sleep
\* starts only from the await of a window all of whose fetches have settled,
\* while no fetch of a later window has started, and only when stations
\* remain after the window; the end of a sleep starts the next window; after
\* the last window the loop goes on without a sleep.
C31_InterWindowDelay ==
  /\ [](batch.pc = "returned" =>
          /\ batch.n >= 1 => 5 * (batch.delays + 1) >= batch.n
                             /\ 5 * batch.delays < batch.n
          /\ batch.n <= 5 => batch.delays = 0)
  /\ [](batch.pc = "delay" =>
          /\ \A s \in DOMAIN flights \ Later(batch.i) : flights[s].pc = "settled"
          /\ \A s \in Later(batch.i) : flights[s].pc = "notstarted"
          /\ Later(batch.i) # {})
  /\ [][/\ (batch'.pc = "delay" /\ batch.pc # "delay") => batch.pc = "await"
        /\ (batch.pc = "delay" /\ batch' # batch) =>
             /\ batch'.pc = "loop"
             /\ batch'.i = batch.i + 5
             /\ batch'.i < batch.n
             /\ batch'.delays = batch.delays + 1
        /\ batch'.delays # batch.delays => batch.pc = "delay"
        /\ (batch.pc = "await" /\ batch'.pc = "loop") =>
             /\ batch.i + 5 >= batch.n
             /\ batch'.delays = batch.delays]_vars

\* six stations: the call has returned after one sleep, between the window
\* of five and the window of one
C31_Witness ==
  /\ batch.pc = "returned"
  /\ batch.n = 6
  /\ batch.delays = 1

(***************************************************************************)
(* Claims about the city-day rollup                                        *)
(***************************************************************************)

\* the snapshots the rollup read, and the daily row stored
RollupSnaps == call.snapshots
RollupStored == db.daily_aggregates

\* C32: the stored daily average is the mean of the averages of all the
\* snapshots of the city and date, the stored minimum the smallest of their
\* minima and the stored maximum the largest of their maxima, snapshots with
\* an average or a minimum of 0 included; with no snapshot no row is written.
C32_CityDayRollup ==
  (call.fn = "updateDailyAggregate" /\ call.pc = "done") =>
    IF RollupSnaps = <<>> THEN RollupStored = <<>>
    ELSE /\ Len(RollupStored) = 1
         /\ LET row == RollupStored[1]
                n == Len(RollupSnaps)
            IN  /\ row.avg_pm25 =
                     RDiv(SumSeq([i \in 1..n |-> RollupSnaps[i].avg_pm25]), Whole(n))
                /\ \E i \in 1..n : row.min_pm25 = RollupSnaps[i].min_pm25
                /\ \A i \in 1..n : RLeq(row.min_pm25, RollupSnaps[i].min_pm25)
                /\ \E i \in 1..n : row.max_pm25 = RollupSnaps[i].max_pm25
                /\ \A i \in 1..n : RLeq(RollupSnaps[i].max_pm25, row.max_pm25)

\* the rollup is the mean and the extrema when no snapshot has an average or
\* a minimum of 0
C32_NonZeroRollup ==
  (/\ call.fn = "updateDailyAggregate" /\ call.pc = "done"
   /\ \A i \in 1..Len(RollupSnaps) : RollupSnaps[i].min_pm25 # Whole(0)) =>
    C32_CityDayRollup

\* C33: the stored peak_hour is the hour of the snapshot with the largest
\* average and peak_pm25 that average; of several hours with the largest
\* average the earliest is stored.
C33_PeakHour ==
  (call.fn = "updateDailyAggregate" /\ call.pc = "done" /\ RollupSnaps # <<>>) =>
    /\ Len(RollupStored) = 1
    /\ \E i \in 1..Len(RollupSnaps) :
         /\ \A j \in 1..Len(RollupSnaps) :
              /\ RLeq(RollupSnaps[j].avg_pm25, RollupSnaps[i].avg_pm25)
              /\ j < i => RollupSnaps[j].avg_pm25 # RollupSnaps[i].avg_pm25
         /\ RollupStored[1].peak_hour = Whole(RollupSnaps[i].recorded_at.hour)
         /\ RollupStored[1].peak_pm25 = RollupSnaps[i].avg_pm25

\* the peak is the earliest hour of the largest average when some snapshot
\* has an average above 0
C33_PositivePeak ==
  (\E i \in 1..Len(RollupSnaps) : RLess(Whole(0), RollupSnaps[i].avg_pm25)) =>
    C33_PeakHour

(***************************************************************************)
(* Claims about the best and the worst city of a national aggregate        *)
(***************************************************************************)

\* the positions in the query result of the cities with the smallest and
\* with the largest daily average
Smallest(cs) == {i \in 1..Len(cs) : \A j \in 1..Len(cs) : RLeq(cs[i].avg_pm25, cs[j].avg_pm25)}
Largest(cs) == {i \in 1..Len(cs) : \A j \in 1..Len(cs) : RLeq(cs[j].avg_pm25, cs[i].avg_pm25)}

\* C34: best_city_id is a city with the smallest daily average and
\* worst_city_id a city with the largest; of several cities with the smallest
\* average the first of the query result is stored, and of several cities
\* with the largest average the last of the query result is stored.
C34_BestWorstCity ==
  (call.fn = "computeNationalAggregateForDate" /\ call.pc = "done") =>
    LET cs == call.cities
        best == CHOOSE i \in Smallest(cs) : \A j \in Smallest(cs) : i <= j
        worst == CHOOSE i \in Largest(cs) : \A j \in Largest(cs) : i >= j
    IN  /\ call.row.best_city_id = cs[best].city_id
        /\ call.row.worst_city_id = cs[worst].city_id

\* C34 as stated: of several cities with the largest average, too, the first
\* of the query result is stored.
C34_FirstOfTies ==
  (call.fn = "computeNationalAggregateForDate" /\ call.pc = "done") =>
    LET cs == call.cities
        best == CHOOSE i \in Smallest(cs) : \A j \in Smallest(cs) : i <= j
        worst == CHOOSE i \in Largest(cs) : \A j \in Largest(cs) : i <= j
    IN  /\ call.row.best_city_id = cs[best].city_id
        /\ call.row.worst_city_id = cs[worst].city_id

\* three cities, the first and the third with the largest average and the
\* second with the smallest: the third is stored as the worst city
C34_Witness ==
  /\ call.fn = "computeNationalAggregateForDate"
  /\ call.pc = "done"
  /\ Len(call.cities) = 3
  /\ Largest(call.cities) = {1, 3}
  /\ Smallest(call.cities) = {2}
  /\ call.row.worst_city_id = 3
  /\ call.row.best_city_id = 2

(***************************************************************************)
(* Claims about the rows of stations                                       *)
(***************************************************************************)

\* the rows of stations with waqi_id s
StationRows(s) == {i \in 1..Len(db.stations) : db.stations[i].waqi_id = s}

\* C35: once ensureStation has returned for a station whose fetch succeeded,
\* the station has one row; no station has two rows; and a row first stored
\* without coordinates has them once ensureStation has returned for a fetch
\* that reported coordinates.
C35_StationLifecycle ==
  /\ \A s \in StationIds : Cardinality(StationRows(s)) <= 1
  /\ \A q \in Sources :
       LET r == runs[q] IN
       r.pc = "insertReading" =>
         LET s == City(r).stations[r.si] IN
         /\ Cardinality(StationRows(s)) = 1
         /\ r.stationDataMap[s].geo =>
              \A i \in StationRows(s) : db.stations[i].located

\* a station has at most one row, has its row once ensureStation has
\* returned, and no step removes or changes a row of stations
C35_RowKept ==
  /\ [](/\ \A s \in StationIds : Cardinality(StationRows(s)) <= 1
        /\ \A q \in Sources :
             runs[q].pc = "insertReading" =>
               Cardinality(StationRows(City(runs[q]).stations[runs[q].si])) = 1)
  /\ [][/\ Len(db'.stations) >= Len(db.stations)
        /\ \A i \in 1..Len(db.stations) : db'.stations[i] = db.stations[i]]_vars

(***************************************************************************)
(* Claims about the response validator                                     *)
(***************************************************************************)

\* the reports of the top-level checks of validateWAQIResponse
StructuralErrors == {"INVALID_RESPONSE", "API_ERROR", "MISSING_DATA"}

\* C36: a response that is not an object, whose status is not 'ok' or that
\* has no data object is invalid, and its result has the errors of the
\* top-level checks only and no warning.
C36_StructuralFirst ==
  (/\ call.fn = "validateWAQIResponse"
   /\ call.pc = "done"
   /\ (~call.value.object \/ call.value.status # "ok" \/ ~call.value.hasData)) =>
    /\ ~call.result.isValid
    /\ Range(call.result.errors) \subseteq StructuralErrors
    /\ call.result.warnings = <<>>

\* that much holds of a response that is not an object or has no data
\* object, and a response of another status is invalid
C36_NoDataFirst ==
  (call.fn = "validateWAQIResponse" /\ call.pc = "done") =>
    /\ (~call.value.object \/ ~call.value.hasData) => C36_StructuralFirst
    /\ (~call.value.object \/ call.value.status # "ok" \/ ~call.value.hasData) =>
         ~call.result.isValid

(***************************************************************************)
(* Claims about the outlier detection                                      *)
(***************************************************************************)

\* the median of the valid values: the middle one, or the mean of the two
\* in the middle
MedianOfValid ==
  LET n == Cardinality(ValidAt)
      vs == {stats.readings[i].pm25 : i \in ValidAt}
      lo == CHOOSE y \in vs : IsKthSmallest(y, (n + 1) \div 2)
      hi == CHOOSE y \in vs : IsKthSmallest(y, n \div 2 + 1)
  IN  RDiv(RAdd(lo, hi), Whole(2))

\* the stations above 3.0 * m, and those below 0.2 * m when m is above 20
OutliersAround(m) ==
  {stats.readings[i].station_id : i \in
     {j \in ValidAt :
        \/ RLess(RMul(Whole(3), m), stats.readings[j].pm25)
        \/ /\ RLess(stats.readings[j].pm25, RMul(Num(1, 5), m))
           /\ RLess(Whole(20), m)}}

\* C37: with fewer than 3 stations with a PM2.5 value no outlier is
\* reported; otherwise, with m the median of the values, the outliers
\* reported are the stations whose value is above 3.0 * m and, when m is
\* above 20, the stations whose value is below 0.2 * m.
C37_OutlierDetection ==
  (stats.pc = "done" /\ call.fn = "generateDataQualityReport" /\ call.pc = "done") =>
    Flagged("outlier") =
      IF Cardinality(ValidAt) < 3 THEN {} ELSE OutliersAround(MedianOfValid)

\* that much holds when the number of stations with a value is odd or
\* below 3
C37_OddCount ==
  (Cardinality(ValidAt) % 2 = 1 \/ Cardinality(ValidAt) < 3) => C37_OutlierDetection

(***************************************************************************)
(* Claims about the manual trigger                                         *)
(***************************************************************************)

\* a step in which a request for /trigger arrives
Arrives == call' # call /\ call.pc # "running"

\* C38: a request for /trigger whose Authorization header is not "Bearer"
\* and the configured secret is answered 401 and leaves the store, the runs
\* and their count as they are; a request with that header starts a manual
\* run, which selects all configured cities at any hour and returns with a
\* result for each of them; no ingestion log is written but by such a run.
C38_CredentialedTrigger ==
  /\ [][Arrives =>
          IF call'.header = <<"Bearer", "s3cret">>
          THEN /\ call'.pc = "running"
               /\ runs'["manual"].pc = "createLog"
               /\ runs'["manual"].source = "manual"
               /\ started'.runs = started.runs + 1
          ELSE /\ call'.pc = "responded"
               /\ call'.status = 401
               /\ db' = db
               /\ runs' = runs
               /\ started' = started]_vars
  /\ [](/\ Len(db.ingestion_logs) <= started.runs
        /\ runs["manual"].pc \notin {"idle", "createLog"} =>
             runs["manual"].citiesToProcess = CITIES
        /\ runs["manual"].pc = "done" =>
             \A i \in 1..Len(CITIES) : CITIES[i].slug \in DOMAIN runs["manual"].results
        /\ call.pc = "responded" => call.status \in {200, 401, 500}
        /\ (call.pc = "responded" /\ call.status = 200) => runs["manual"].pc = "done")

\* a credentialed request in an odd hour has been answered 200 after a run
\* over both cities
C38_Witness ==
  /\ call.pc = "responded"
  /\ call.status = 200
  /\ getHours(runs["manual"].hourTimestamp) % 2 = 1
  /\ runs["manual"].citiesProcessed = 2
  /\ Len(db.ingestion_logs) = 1

\* a request with the scheme in lower case has been answered 401 after a
\* run, the store as the run left it
C38_Refused ==
  /\ call.pc = "responded"
  /\ call.status = 401
  /\ call.header = <<"bearer", "s3cret">>
  /\ Len(db.ingestion_logs) = 1

(***************************************************************************)
(* Claims about the backfill and the rows that exist                       *)
(***************************************************************************)

\* the rows of daily_aggregates of a city and date in a table
DailyOf(table, cityId, date) ==
  {i \in 1..Len(table) : table[i].city_id = cityId /\ table[i].date = date}

\* C39: the INSERT of the backfill adds the row of the day when the city has
\* no daily aggregate for the date and otherwise leaves the table as it is,
\* whether the row there came from the hourly ingestion or from an earlier
\* day of the backfill; it changes no other table.  The INSERT of the hourly
\* ingestion leaves one row for the city and date, the rollup of the day's
\* snapshots, whatever row was there.
C39_BackfillKeepsRows ==
  [][/\ (backfill.pc = "insert" /\ backfill'.pc = "idle") =>
          /\ db'.daily_aggregates =
               IF DailyOf(db.daily_aggregates, backfill.city_id, backfill.date) # {}
               THEN db.daily_aggregates
               ELSE Append(db.daily_aggregates,
                           BackfillRow(backfill.city_id, backfill.date, backfill.day))
          /\ [db' EXCEPT !.daily_aggregates = <<>>] = [db EXCEPT !.daily_aggregates = <<>>]
     /\ (runs["manual"].pc = "dailyInsert" /\ runs'["manual"].pc # "dailyInsert") =>
          LET r == runs["manual"]
              at == DailyOf(db'.daily_aggregates, r.cityId, DateOf(r.hourTimestamp))
          IN  /\ Cardinality(at) = 1
              /\ \A i \in at : db'.daily_aggregates[i] =
                                 DailyRow(r.cityId, DateOf(r.hourTimestamp), r.snapshots)
              /\ \A i \in 1..Len(db.daily_aggregates) :
                   i \notin DailyOf(db.daily_aggregates, r.cityId, DateOf(r.hourTimestamp))
                     => \E j \in 1..Len(db'.daily_aggregates) :
                          db'.daily_aggregates[j] = db.daily_aggregates[i]]_vars

\* two days of sensors of the same city and date have been processed, the
\* second with other values: the row holds the values of the first
C39_Witness ==
  /\ started.backfills = 2
  /\ started.runs = 0
  /\ backfill.pc = "idle"
  /\ backfill.day.avg = Whole(70)
  /\ \E i \in DailyOf(db.daily_aggregates, backfill.city_id, backfill.date) :
       db.daily_aggregates[i].avg_pm25 = Whole(50)

\* a row of the backfill has been replaced by the row of a manual run, and a
\* later day of the backfill has left that row as it is
C39_Replaced ==
  /\ started.backfills = 2
  /\ started.runs = 1
  /\ backfill.pc = "idle"
  /\ runs["manual"].pc = "done"
  /\ \E i \in DailyOf(db.daily_aggregates, backfill.city_id, backfill.date) :
       /\ ByIngestion(db.daily_aggregates[i])
       /\ db.daily_aggregates[i].avg_pm25 # backfill.day.avg
  /\ Len(db.daily_aggregates) = 2

(***************************************************************************)
(* Claims about the national rollup of earlier dates                       *)
(***************************************************************************)

\* the national row of the date is the rollup of the date's city-day rows
\* as they are now, when the date has any
Current(date) ==
  LET cities == CityData(db.daily_aggregates, db.cities, date)
  IN  cities # <<>> =>
        \E i \in 1..Len(db.national_daily_aggregates) :
          db.national_daily_aggregates[i] = NationalRow(date, cities)

\* C40: for every date, from some scheduled run of the aggregator on the
\* stored national row of the date is the rollup of the date's final
\* city-day rows, whenever the last write to them happened.
C40_NationalCatchesUp == \A date \in 0..MaxDay : <>[]Current(date)

\* that much holds of the date that is today's from some moment on
C40_TodayCatchesUp == <>[]Current(DateOf(clock))

====
